---------------------------- MODULE Spec2Model ----------------------------
(***************************************************************************)
(* Query router of the MySchool chatbot: the Priority Search Engine of     *)
(* server/enhancedSemanticSearch.ts over the static knowledge base         *)
(* (server/myschool_knowledge_base.json as bundled in dist/index.js).      *)
(*                                                                         *)
(* Strings are TLA+ strings (Len, SubSeq and \o act on them character by   *)
(* character).  A confidence is an integer number of hundredths: 95 is     *)
(* the code's 0.95.  A similarity ratio is a record [num, den].            *)
(***************************************************************************)
EXTENDS Integers, Sequences, FiniteSets, TLC

(***************************************************************************)
(* JavaScript string primitives used by the code                           *)
(***************************************************************************)
UPPER == "ABCDEFGHIJKLMNOPQRSTUVWXYZ"
LOWER == "abcdefghijklmnopqrstuvwxyz"
DIGITS == "0123456789"
Whitespace == {" ", "\t", "\n", "\r", "\f"}

Char(s, i) == SubSeq(s, i, i)

\* str.indexOf(c) + 1 for a one-character string c: its first position in
\* str, 0 when absent
RECURSIVE IndexFrom(_, _, _)
IndexFrom(c, str, i) ==
  IF i > Len(str) THEN 0
  ELSE IF Char(str, i) = c THEN i
  ELSE IndexFrom(c, str, i + 1)

IndexOf(c, str) == IndexFrom(c, str, 1)

UpperSet == { Char(UPPER, i) : i \in 1..Len(UPPER) }
LowerSet == { Char(LOWER, i) : i \in 1..Len(LOWER) }
DigitSet == { Char(DIGITS, i) : i \in 1..Len(DIGITS) }

\* the function that maps each character of from to the character of to at
\* the same position
RECURSIVE CharMapFrom(_, _, _)
CharMapFrom(from, to, i) ==
  IF i = Len(from) THEN Char(from, i) :> Char(to, i)
  ELSE (Char(from, i) :> Char(to, i)) @@ CharMapFrom(from, to, i + 1)

LowerOf == CharMapFrom(UPPER, LOWER, 1)
UpperOf == CharMapFrom(LOWER, UPPER, 1)

IsDigit(c) == c \in DigitSet
IsUpper(c) == c \in UpperSet
IsLower(c) == c \in LowerSet
IsLetter(c) == IsUpper(c) \/ IsLower(c)

RECURSIVE toLowerCase(_)
toLowerCase(s) ==
  IF \A i \in 1..Len(s) : ~IsUpper(Char(s, i)) THEN s
  ELSE LET c == Char(s, 1)
       IN (IF IsUpper(c) THEN LowerOf[c] ELSE c)
          \o toLowerCase(Tail(s))

RECURSIVE toUpperCase(_)
toUpperCase(s) ==
  IF \A i \in 1..Len(s) : ~IsLower(Char(s, i)) THEN s
  ELSE LET c == Char(s, 1)
       IN (IF IsLower(c) THEN UpperOf[c] ELSE c)
          \o toUpperCase(Tail(s))

RECURSIVE trimStart(_)
trimStart(s) ==
  IF Len(s) > 0 /\ Char(s, 1) \in Whitespace THEN trimStart(Tail(s)) ELSE s

RECURSIVE trimEnd(_)
trimEnd(s) ==
  IF Len(s) > 0 /\ Char(s, Len(s)) \in Whitespace
  THEN trimEnd(SubSeq(s, 1, Len(s) - 1)) ELSE s

trim(s) == trimEnd(trimStart(s))

\* s.includes(t)
includes(s, t) ==
  \/ Len(t) = 0
  \/ \E i \in 1..(Len(s) - Len(t) + 1) : SubSeq(s, i, i + Len(t) - 1) = t

\* s.startsWith(t, i - 1): t occurs in s at position i (1-based)
StartsAt(s, i, t) ==
  /\ i + Len(t) - 1 <= Len(s)
  /\ SubSeq(s, i, i + Len(t) - 1) = t

\* s.split(/\s+/): the pieces between maximal runs of whitespace, the empty
\* pieces before a leading run and after a trailing run included
RECURSIVE SplitFrom(_, _, _)
SplitFrom(s, i, cur) ==
  IF i > Len(s) THEN <<cur>>
  ELSE IF Char(s, i) \in Whitespace
       THEN IF i > 1 /\ Char(s, i - 1) \in Whitespace
            THEN SplitFrom(s, i + 1, cur)
            ELSE <<cur>> \o SplitFrom(s, i + 1, "")
       ELSE SplitFrom(s, i + 1, cur \o Char(s, i))

split(s) == SplitFrom(s, 1, "")

\* array.filter
RECURSIVE SelectSeqBy(_, _)
SelectSeqBy(seq, minLen) ==
  IF seq = <<>> THEN <<>>
  ELSE (IF Len(Head(seq)) > minLen THEN <<Head(seq)>> ELSE <<>>)
       \o SelectSeqBy(Tail(seq), minLen)

\* array.join(sep)
RECURSIVE join(_, _)
join(seq, sep) ==
  IF seq = <<>> THEN ""
  ELSE IF Len(seq) = 1 THEN Head(seq)
  ELSE Head(seq) \o sep \o join(Tail(seq), sep)

\* parseInt of a non-empty string of decimal digits
RECURSIVE parseInt(_)
parseInt(d) ==
  IF Len(d) = 0 THEN 0
  ELSE 10 * parseInt(SubSeq(d, 1, Len(d) - 1)) + (IndexOf(Char(d, Len(d)), DIGITS) - 1)

\* Number.prototype.toString for a natural number
RECURSIVE toString(_)
toString(n) ==
  IF n < 10 THEN Char(DIGITS, n + 1)
  ELSE toString(n \div 10) \o Char(DIGITS, (n % 10) + 1)

\* encodeURIComponent on ASCII text: letters, digits and - _ . ! ~ * ' ( )
\* are kept, every other character becomes %XX
ASCII_32_95 == " !" \o "\"" \o "#$%&'()*+,-./0123456789:;<=>?@ABCDEFGHIJKLMNOPQRSTUVWXYZ["
               \o "\\" \o "]^_"
ASCII_97_126 == "abcdefghijklmnopqrstuvwxyz{|}~"
HEX == "0123456789ABCDEF"
URI_UNRESERVED == "-_.!~*'()"

CharCode(c) ==
  IF c = "\t" THEN 9
  ELSE IF c = "\n" THEN 10
  ELSE IF c = "\f" THEN 12
  ELSE IF c = "\r" THEN 13
  ELSE IF IndexOf(c, ASCII_32_95) > 0 THEN 31 + IndexOf(c, ASCII_32_95)
  ELSE 96 + IndexOf(c, ASCII_97_126)

RECURSIVE encodeURIComponent(_)
encodeURIComponent(s) ==
  IF Len(s) = 0 THEN ""
  ELSE LET c == Char(s, 1)
           n == CharCode(c)
       IN (IF IsLetter(c) \/ IsDigit(c) \/ IndexOf(c, URI_UNRESERVED) > 0
           THEN c
           ELSE "%" \o Char(HEX, (n \div 16) + 1) \o Char(HEX, (n % 16) + 1))
          \o encodeURIComponent(Tail(s))

(***************************************************************************)
(* Static tables.  A keyword written in Devanagari or Telugu script is     *)
(* written with one "~" per UTF-16 code unit: no query of the model        *)
(* contains "~", so it compares with a query as the original does with     *)
(* ASCII text.                                                             *)
(***************************************************************************)
IMAGE_SEARCH_TERMS == <<
  "animals", "animal", "lion", "tiger", "elephant", "monkey", "cat", "dog",
  "bird", "fish", "flowers", "flower", "rose", "lotus", "sunflower",
  "plants", "trees", "tree", "fruits", "fruit", "apple", "mango", "banana",
  "vegetables", "vegetable", "body parts", "human body", "organs",
  "skeleton", "shapes", "circle", "square", "triangle", "rectangle",
  "colors", "colour", "red", "blue", "green", "yellow", "vehicles", "car",
  "bus", "train", "plane", "airplane", "ship", "boat", "buildings",
  "house", "school", "hospital", "temple", "church", "mosque", "food",
  "water", "nature", "sky", "sun", "moon", "stars", "earth", "planet",
  "insects", "butterfly", "ant", "bee", "spider", "seasons", "summer",
  "winter", "rain", "monsoon", "professions", "doctor", "teacher",
  "farmer", "police", "soldier", "sports", "cricket", "football", "hockey",
  "tennis", "musical instruments", "guitar", "piano", "drum", "flute",
  "festivals", "diwali", "holi", "christmas", "eid" >>

BASE_URL == "https://portal.myschoolct.com"

\* knowledgeBase.sections.academic.subsections.grades.subjects, in key order
subjects == <<
  [name |-> "computer", code |-> "unknown",
   keywords |-> << "computer", "computers", "computing", "it", "technology",
                  "coding" >>],
  [name |-> "english", code |-> "1",
   keywords |-> << "english", "language", "grammar", "reading", "writing" >>],
  [name |-> "evs", code |-> "unknown",
   keywords |-> << "evs", "environment", "environmental studies", "nature",
                  "science" >>],
  [name |-> "hindi", code |-> "2",
   keywords |-> << "hindi", "~~~~~", "language" >>],
  [name |-> "maths", code |-> "3",
   keywords |-> << "maths", "mathematics", "math", "numbers", "calculation",
                  "arithmetic", "algebra", "geometry" >>],
  [name |-> "science", code |-> "4",
   keywords |-> << "science", "physics", "chemistry", "biology",
                  "experiment" >>],
  [name |-> "social", code |-> "unknown",
   keywords |-> << "social", "social studies", "history", "geography",
                  "civics" >>],
  [name |-> "telugu", code |-> "unknown",
   keywords |-> << "telugu", "~~~~~~", "language" >>] >>

\* knowledgeBase.sections.academic.subsections.one_click_resources.resources
oneClickResources == <<
  [name |-> "Smart Wall", url |-> "/views/academic/smart-wall?ocrc",
   keywords |-> << "smart wall", "smartwall", "wall",
                  "classroom decoration", "display", "visual", "posters",
                  "charts", "classroom decor", "decoration" >>],
  [name |-> "Image Bank", url |-> "/views/academic/image-bank?ocrc",
   keywords |-> << "image bank", "imagebank", "images", "pictures",
                  "photos", "visuals", "graphics" >>],
  [name |-> "Exam Tips", url |-> "/views/academic/result?text=exam tips",
   keywords |-> << "exam tips", "exam", "test", "preparation", "tips" >>],
  [name |-> "MCQ Bank", url |-> "/views/academic/result?text=mcq",
   keywords |-> << "mcq", "multiple choice", "questions", "quiz", "test" >>],
  [name |-> "Visual Worksheets", url |-> "/views/academic/result?text=visual worksheets",
   keywords |-> << "visual worksheets", "worksheets", "activities",
                  "practice" >>],
  [name |-> "Pictorial Stories", url |-> "/views/academic/result?text=pictorial stories",
   keywords |-> << "pictorial stories", "stories", "picture stories",
                  "reading" >>] >>

\* Object.entries(knowledgeBase.sections) without "academic", in key order;
\* sectionName is the key of the entry
sections == <<
  [sectionName |-> "early_career", url |-> "/views/early-career",
   description |-> "4200+ read aloud stories for teaching & learning to impart value education",
   keywords |-> << "early career", "career", "stories", "read aloud",
                  "value education", "moral stories" >>],
  [sectionName |-> "edutainment", url |-> "/views/edutainment",
   description |-> "Educational entertainment resources",
   keywords |-> << "edutainment", "entertainment", "fun", "games",
                  "activities", "learning games" >>],
  [sectionName |-> "print_rich", url |-> "/views/print-rich",
   description |-> "Print-rich environment resources",
   keywords |-> << "print rich", "printing", "publishing", "materials",
                  "resources" >>],
  [sectionName |-> "maker", url |-> "/views/maker",
   description |-> "Maker education resources",
   keywords |-> << "maker", "diy", "create", "build", "hands-on",
                  "projects" >>],
  [sectionName |-> "info_hub", url |-> "/views/info-hub",
   description |-> "Information hub with various resources",
   keywords |-> << "info hub", "information", "resources", "help" >>] >>


(***************************************************************************)
(* Phonetic coder and character-overlap similarity                         *)
(***************************************************************************)
\* the codes table of soundex: SOUNDEX_LETTERS[i] has code SOUNDEX_CODES[i]
SOUNDEX_LETTERS == "BFPVCGJKQSXZDTLMNR"
SOUNDEX_CODES == "111122222222334556"

\* codes[c] || '0'
codes == CharMapFrom(SOUNDEX_LETTERS, SOUNDEX_CODES, 1)

codeOf(c) == IF c \in DOMAIN codes THEN codes[c] ELSE "0"

\* str.replace(/[^A-Z]/g, '')
RECURSIVE keepUpper(_)
keepUpper(s) ==
  IF Len(s) = 0 THEN ""
  ELSE (IF IsUpper(Char(s, 1)) THEN Char(s, 1) ELSE "") \o keepUpper(Tail(s))

\* the for loop of soundex, from index i (1-based) with the code built so far
RECURSIVE soundexLoop(_, _, _, _)
soundexLoop(s, i, code, prevCode) ==
  IF i <= Len(s) /\ Len(code) < 4
  THEN LET currentCode == codeOf(Char(s, i))
       IN soundexLoop(s, i + 1,
            IF currentCode # "0" /\ currentCode # prevCode
            THEN code \o currentCode ELSE code,
            IF currentCode # "0" THEN currentCode ELSE prevCode)
  ELSE code

\* a coder that does not remove the characters that are no letters
soundexUnfiltered(str) ==
  LET s == toUpperCase(str)
  IN IF Len(s) = 0 THEN "0000"
     ELSE SubSeq(soundexLoop(s, 2, Char(s, 1), codeOf(Char(s, 1))) \o "0000", 1, 4)

soundex(str) ==
  LET s == keepUpper(toUpperCase(str))
  IN IF Len(s) = 0 THEN "0000"
     ELSE SubSeq(soundexLoop(s, 2, Char(s, 1), codeOf(Char(s, 1))) \o "0000", 1, 4)

phoneticMatch(word1, word2) == soundex(word1) = soundex(word2)

\* number of characters of shorter that occur in longer
RECURSIVE countMatches(_, _)
countMatches(shorter, longer) ==
  IF Len(shorter) = 0 THEN 0
  ELSE (IF includes(longer, Char(shorter, 1)) THEN 1 ELSE 0)
       + countMatches(Tail(shorter), longer)

\* the ratio returned by fuzzyMatch: 1, 0.8 = 4/5, or matches / longer.length
fuzzyMatch(str1, str2) ==
  LET s1 == toLowerCase(str1)
      s2 == toLowerCase(str2)
      longer == IF Len(s1) > Len(s2) THEN s1 ELSE s2
      shorter == IF Len(s1) > Len(s2) THEN s2 ELSE s1
  IN IF s1 = s2 THEN [num |-> 1, den |-> 1]
     ELSE IF includes(s1, s2) \/ includes(s2, s1) THEN [num |-> 4, den |-> 5]
     ELSE IF Len(longer) = 0 THEN [num |-> 1, den |-> 1]
     ELSE [num |-> countMatches(shorter, longer), den |-> Len(longer)]

\* r > tenths / 10 for a ratio r
RatioGT(r, tenths) == r.num * 10 > tenths * r.den

isImageSearchTerm(query) ==
  LET queryLower == trim(toLowerCase(query))
      queryWords == split(queryLower)
  IN \E t \in 1..Len(IMAGE_SEARCH_TERMS) :
       LET term == IMAGE_SEARCH_TERMS[t]
       IN \/ queryLower = term
          \/ includes(queryLower, term)
          \/ \E w \in 1..Len(queryWords) :
               LET word == queryWords[w]
               IN \/ word = term
                  \/ RatioGT(fuzzyMatch(word, term), 7)
                  \/ phoneticMatch(word, term)

\* the score one query word adds for one keyword (inner loop body)
wordScore(word, keywordLower) ==
  IF Len(word) > 2
  THEN IF includes(keywordLower, word) THEN 2
       ELSE IF phoneticMatch(word, keywordLower) THEN 3
       ELSE IF RatioGT(fuzzyMatch(word, keywordLower), 6) THEN 2
       ELSE 0
  ELSE 0

RECURSIVE wordsScore(_, _)
wordsScore(queryWords, keywordLower) ==
  IF queryWords = <<>> THEN 0
  ELSE wordScore(Head(queryWords), keywordLower)
       + wordsScore(Tail(queryWords), keywordLower)

\* the score one keyword adds (outer loop body)
keywordScore(queryLower, queryWords, keyword) ==
  LET keywordLower == toLowerCase(keyword)
  IN (IF queryLower = keywordLower THEN 10
      ELSE IF includes(queryLower, keywordLower) \/ includes(keywordLower, queryLower)
           THEN 5
      ELSE 0)
     + wordsScore(queryWords, keywordLower)

RECURSIVE keywordsScore(_, _, _)
keywordsScore(queryLower, queryWords, keywords) ==
  IF keywords = <<>> THEN 0
  ELSE keywordScore(queryLower, queryWords, Head(keywords))
       + keywordsScore(queryLower, queryWords, Tail(keywords))

calculateSimilarity(query, keywords) ==
  LET queryLower == toLowerCase(query)
      queryWords == SelectSeqBy(split(queryLower), 1)
  IN IF Len(queryWords) = 0 THEN 0
     ELSE keywordsScore(queryLower, queryWords, keywords)

(***************************************************************************)
(* Class/subject extractor.  A nullable value is a sequence: NULL is the   *)
(* code's null, Some(v) a value.                                           *)
(***************************************************************************)
NULL == <<>>
Some(v) == <<v>>
IsNull(o) == o = <<>>
ValueOf(o) == o[1]

\* first index >= i of s that holds no digit (Len(s) + 1 when none): \d+ from i
RECURSIVE digitsEnd(_, _)
digitsEnd(s, i) ==
  IF i <= Len(s) /\ IsDigit(Char(s, i)) THEN digitsEnd(s, i + 1) ELSE i

\* first index >= i of s that holds no whitespace: \s* from i
RECURSIVE skipWS(_, _)
skipWS(s, i) ==
  IF i <= Len(s) /\ Char(s, i) \in Whitespace THEN skipWS(s, i + 1) ELSE i

\* (?:class|grade|std) at position i: the index after the alternative that
\* matches, 0 when none does
classWordEnd(s, i) ==
  IF StartsAt(s, i, "class") THEN i + 5
  ELSE IF StartsAt(s, i, "grade") THEN i + 5
  ELSE IF StartsAt(s, i, "std") THEN i + 3
  ELSE 0

\* leftmost position of s where a pattern matches, 0 when it matches nowhere
LeftmostPos(s, MatchesAt(_)) ==
  IF \E p \in 1..Len(s) : MatchesAt(p)
  THEN CHOOSE p \in 1..Len(s) :
         MatchesAt(p) /\ \A r \in 1..(p - 1) : ~MatchesAt(r)
  ELSE 0

\* /age\s*(\d+)/ : group 1 of the first match, "" when there is no match
ageMatch(s) ==
  LET At(p) == StartsAt(s, p, "age") /\ digitsEnd(s, skipWS(s, p + 3)) > skipWS(s, p + 3)
      p == LeftmostPos(s, At)
      q == skipWS(s, p + 3)
  IN IF p = 0 THEN "" ELSE SubSeq(s, q, digitsEnd(s, q) - 1)

\* /(\d+)(?:st|nd|rd|th)?\s*(?:class|grade|std)/
ordinalPatternMatch(s) ==
  LET Rest(e) ==
        \/ /\ \E suf \in {"st", "nd", "rd", "th"} : StartsAt(s, e, suf)
           /\ classWordEnd(s, skipWS(s, e + 2)) > 0
        \/ classWordEnd(s, skipWS(s, e)) > 0
      At(p) == IsDigit(Char(s, p)) /\ Rest(digitsEnd(s, p))
      p == LeftmostPos(s, At)
  IN IF p = 0 THEN "" ELSE SubSeq(s, p, digitsEnd(s, p) - 1)

\* /(?:class|grade|std)\s*(\d+)/
classPatternMatch(s) ==
  LET At(p) == /\ classWordEnd(s, p) > 0
               /\ digitsEnd(s, skipWS(s, classWordEnd(s, p))) > skipWS(s, classWordEnd(s, p))
      p == LeftmostPos(s, At)
      q == skipWS(s, classWordEnd(s, p))
  IN IF p = 0 THEN "" ELSE SubSeq(s, q, digitsEnd(s, q) - 1)

\* /grade\s*-?\s*(\d+)/
gradePatternMatch(s) ==
  LET Digits(p) == LET q1 == skipWS(s, p + 5)
                   IN IF StartsAt(s, q1, "-") /\ digitsEnd(s, skipWS(s, q1 + 1)) > skipWS(s, q1 + 1)
                      THEN skipWS(s, q1 + 1)
                      ELSE q1
      At(p) == StartsAt(s, p, "grade") /\ digitsEnd(s, Digits(p)) > Digits(p)
      p == LeftmostPos(s, At)
  IN IF p = 0 THEN "" ELSE SubSeq(s, Digits(p), digitsEnd(s, Digits(p)) - 1)

\* the classPatterns loop: the value of the first pattern whose first match
\* lies in [1,10]
classPatternsLoop(queryLower) ==
  LET m == << ordinalPatternMatch(queryLower), classPatternMatch(queryLower),
              gradePatternMatch(queryLower) >>
      Hit(i) == m[i] # "" /\ parseInt(m[i]) >= 1 /\ parseInt(m[i]) <= 10
  IN IF \E i \in 1..3 : Hit(i)
     THEN Some(parseInt(m[CHOOSE i \in 1..3 : Hit(i) /\ \A j \in 1..(i - 1) : ~Hit(j)]))
     ELSE NULL

\* the subjects loop from entry i on: [maxScore, matchedSubject]
RECURSIVE subjectLoop(_, _, _, _)
subjectLoop(queryLower, i, maxScore, matchedSubject) ==
  IF i > Len(subjects) THEN [maxScore |-> maxScore, matchedSubject |-> matchedSubject]
  ELSE LET score == calculateSimilarity(queryLower, subjects[i].keywords)
       IN IF score > maxScore
          THEN subjectLoop(queryLower, i + 1, score, Some(subjects[i].name))
          ELSE subjectLoop(queryLower, i + 1, maxScore, matchedSubject)

extractClassAndSubject(query) ==
  LET queryLower == trim(toLowerCase(query))
      words == split(queryLower)
      am == ageMatch(queryLower)
      age == parseInt(am)
      best == subjectLoop(queryLower, 1, 0, NULL)
      lastWord == IF Len(words) > 0 THEN Some(words[Len(words)]) ELSE NULL
  IN IF am # "" /\ age >= 5 /\ age <= 15
     THEN [classNum |-> Some(age - 5), subject |-> NULL, lastWord |-> NULL]
     ELSE [classNum |-> classPatternsLoop(queryLower),
           subject |-> IF best.maxScore > 3 THEN best.matchedSubject ELSE NULL,
           lastWord |-> lastWord]

(***************************************************************************)
(* Priority Search Engine                                                  *)
(***************************************************************************)
\* w.charAt(0).toUpperCase() + w.slice(1)
capitalize(w) ==
  IF Len(w) = 0 THEN "" ELSE toUpperCase(Char(w, 1)) \o SubSeq(w, 2, Len(w))

\* sectionName.split('_')
RECURSIVE splitUnderscore(_, _, _)
splitUnderscore(s, i, cur) ==
  IF i > Len(s) THEN <<cur>>
  ELSE IF Char(s, i) = "_" THEN <<cur>> \o splitUnderscore(s, i + 1, "")
  ELSE splitUnderscore(s, i + 1, cur \o Char(s, i))

RECURSIVE mapCapitalize(_)
mapCapitalize(ws) ==
  IF ws = <<>> THEN <<>> ELSE <<capitalize(Head(ws))>> \o mapCapitalize(Tail(ws))

\* /^[a-zA-Z0-9\s]+$/.test(s)
isAlphanumericText(s) ==
  /\ Len(s) >= 1
  /\ \A i \in 1..Len(s) :
       IsLetter(Char(s, i)) \/ IsDigit(Char(s, i)) \/ Char(s, i) \in Whitespace

\* results.sort((a, b) => b.confidence - a.confidence): stable, descending
RECURSIVE insertByConfidence(_, _)
insertByConfidence(sorted, r) ==
  IF sorted = <<>> THEN <<r>>
  ELSE IF Head(sorted).confidence >= r.confidence
       THEN <<Head(sorted)>> \o insertByConfidence(Tail(sorted), r)
       ELSE <<r>> \o sorted

RECURSIVE sortByConfidence(_)
sortByConfidence(rs) ==
  IF rs = <<>> THEN <<>>
  ELSE insertByConfidence(sortByConfidence(SubSeq(rs, 1, Len(rs) - 1)), rs[Len(rs)])

\* array.slice(0, 1)
sliceFirst(rs) == IF rs = <<>> THEN <<>> ELSE <<rs[1]>>

Min(a, b) == IF a < b THEN a ELSE b

\* PRIORITY 1: the Image Bank result
imageBankResult(query) ==
  [name |-> "Image Bank: " \o query,
   description |-> "Search for \"" \o query
      \o "\" images in One Click Resource Centre - Image Bank (80,000+ educational images)",
   url |-> BASE_URL \o "/views/sections/image-bank?search=" \o encodeURIComponent(query),
   category |-> "image_bank",
   confidence |-> 95]

\* the one-click loop with the threshold of getSuggestions (score > 2)
RECURSIVE oneClickLoopLoose(_, _)
oneClickLoopLoose(queryLower, i) ==
  IF i > Len(oneClickResources) THEN <<>>
  ELSE LET resource == oneClickResources[i]
           score == calculateSimilarity(queryLower, resource.keywords)
       IN (IF score > 2
           THEN << [name |-> resource.name,
                    description |-> join(resource.keywords, ", "),
                    url |-> BASE_URL \o resource.url,
                    category |-> "one_click",
                    confidence |-> Min(score * 10, 100)] >>
           ELSE <<>>)
          \o oneClickLoopLoose(queryLower, i + 1)

\* PRIORITY 2: the one-click loop from resource i on, the results it pushes
RECURSIVE oneClickLoop(_, _)
oneClickLoop(queryLower, i) ==
  IF i > Len(oneClickResources) THEN <<>>
  ELSE LET resource == oneClickResources[i]
           score == calculateSimilarity(queryLower, resource.keywords)
       IN (IF score > 6
           THEN << [name |-> resource.name,
                    description |-> join(resource.keywords, ", "),
                    url |-> BASE_URL \o resource.url,
                    category |-> "one_click",
                    confidence |-> Min(score * 10, 100)] >>
           ELSE <<>>)
          \o oneClickLoop(queryLower, i + 1)

\* subjects[subject]
subjectData(subject) ==
  subjects[CHOOSE i \in 1..Len(subjects) : subjects[i].name = subject]

\* PRIORITY 3: the results pushed for class number n (as text) and the
\* subject and last word the extractor returned
classBranch(n, subject, lastWord) ==
  IF ~IsNull(subject) /\ ValueOf(subject) # ""
  THEN IF subjectData(ValueOf(subject)).code # "unknown"
       THEN << [name |-> "Class " \o n \o " " \o capitalize(ValueOf(subject)),
                description |-> "Access Class " \o n \o " " \o ValueOf(subject)
                                \o " curriculum",
                url |-> BASE_URL \o "/views/academic/class/class-" \o n
                        \o "?main=1&mu=" \o subjectData(ValueOf(subject)).code,
                category |-> "class_subject",
                confidence |-> 95] >>
       ELSE <<>>
  ELSE IF /\ ~IsNull(lastWord) /\ ValueOf(lastWord) # ""
          /\ ValueOf(lastWord) # n
          /\ ValueOf(lastWord) \notin {"class", "grade", "std"}
  THEN << [name |-> "Class " \o n \o " Search: " \o ValueOf(lastWord),
           description |-> "Searching for " \o ValueOf(lastWord) \o " in Class " \o n,
           url |-> BASE_URL \o "/views/academic/class/class-" \o n
                   \o "?search=" \o encodeURIComponent(ValueOf(lastWord)),
           category |-> "class_subject",
           confidence |-> 90] >>
  ELSE << [name |-> "Class " \o n \o " Resources",
           description |-> "Access all Class " \o n \o " resources",
           url |-> BASE_URL \o "/views/academic/class/class-" \o n,
           category |-> "class_subject",
           confidence |-> 85] >>

\* if (classNum) { ... } for the extractor's result ecs
classTier(ecs) ==
  IF IsNull(ecs.classNum) \/ ValueOf(ecs.classNum) = 0 THEN <<>>
  ELSE classBranch(toString(ValueOf(ecs.classNum)), ecs.subject, ecs.lastWord)

classResults(query) == classTier(extractClassAndSubject(query))

\* PRIORITY 4: the sections loop from section i on, the results it pushes
RECURSIVE sectionLoop(_, _)
sectionLoop(queryLower, i) ==
  IF i > Len(sections) THEN <<>>
  ELSE LET sectionData == sections[i]
           score == calculateSimilarity(queryLower, sectionData.keywords)
       IN (IF score > 4
           THEN << [name |-> join(mapCapitalize(splitUnderscore(sectionData.sectionName, 1, "")), " "),
                    description |-> sectionData.description,
                    url |-> BASE_URL \o sectionData.url,
                    category |-> "section",
                    confidence |-> Min(score * 10, 80)] >>
           ELSE <<>>)
          \o sectionLoop(queryLower, i + 1)

\* PRIORITY 5: the general search result
searchResult(query) ==
  [name |-> "Search: " \o query,
   description |-> "Searching for \"" \o query \o "\" in Academic Resources",
   url |-> BASE_URL \o "/views/sections/image-bank?search=" \o encodeURIComponent(query),
   category |-> "search",
   confidence |-> 50]

\* PRIORITY 6: the final fallback
fallbackResult ==
  [name |-> "Browse Academic Resources",
   description |-> "Explore all academic resources, classes, and subjects",
   url |-> BASE_URL \o "/views/academic",
   category |-> "none",
   confidence |-> 0]

\* performPrioritySearch returning the class tier's list whenever a class
\* number was extracted, instead of whenever that list is non-empty
performPrioritySearchEarlyReturn(query) ==
  LET queryLower == trim(toLowerCase(query))
      isMeaningless == Len(queryLower) < 2 \/ ~isAlphanumericText(queryLower)
      oneClick == oneClickLoop(queryLower, 1)
      classNum == extractClassAndSubject(query).classNum
      classSubject == classResults(query)
      section == sectionLoop(queryLower, 1)
  IN IF isImageSearchTerm(query) THEN << imageBankResult(query) >>
     ELSE IF Len(oneClick) > 0 THEN sliceFirst(sortByConfidence(oneClick))
     ELSE IF ~IsNull(classNum) /\ ValueOf(classNum) # 0 THEN sliceFirst(classSubject)
     ELSE IF Len(section) > 0 THEN sliceFirst(sortByConfidence(section))
     ELSE IF ~isMeaningless /\ Len(queryLower) >= 3 THEN << searchResult(query) >>
     ELSE << fallbackResult >>

\* performPrioritySearch with the gibberish verdict taken before the tiers
performPrioritySearchGibberishFirst(query) ==
  LET queryLower == trim(toLowerCase(query))
      isMeaningless == Len(queryLower) < 2 \/ ~isAlphanumericText(queryLower)
      oneClick == oneClickLoop(queryLower, 1)
      classSubject == classResults(query)
      section == sectionLoop(queryLower, 1)
  IN IF isMeaningless THEN << fallbackResult >>
     ELSE IF isImageSearchTerm(query) THEN << imageBankResult(query) >>
     ELSE IF Len(oneClick) > 0 THEN sliceFirst(sortByConfidence(oneClick))
     ELSE IF Len(classSubject) > 0 THEN sliceFirst(classSubject)
     ELSE IF Len(section) > 0 THEN sliceFirst(sortByConfidence(section))
     ELSE IF Len(queryLower) >= 3 THEN << searchResult(query) >>
     ELSE << fallbackResult >>

performPrioritySearch(query) ==
  LET queryLower == trim(toLowerCase(query))
      isMeaningless == Len(queryLower) < 2 \/ ~isAlphanumericText(queryLower)
      oneClick == oneClickLoop(queryLower, 1)
      classSubject == classResults(query)
      section == sectionLoop(queryLower, 1)
  IN IF isImageSearchTerm(query) THEN << imageBankResult(query) >>
     ELSE IF Len(oneClick) > 0 THEN sliceFirst(sortByConfidence(oneClick))
     ELSE IF Len(classSubject) > 0 THEN sliceFirst(classSubject)
     ELSE IF Len(section) > 0 THEN sliceFirst(sortByConfidence(section))
     ELSE IF ~isMeaningless /\ Len(queryLower) >= 3 THEN << searchResult(query) >>
     ELSE << fallbackResult >>

(***************************************************************************)
(* Helpers of the other snapshots of the engine and of the chat handler    *)
(***************************************************************************)
\* s.split(" ").join("")
RECURSIVE removeSpaces(_)
removeSpaces(s) ==
  IF Len(s) = 0 THEN ""
  ELSE (IF Char(s, 1) = " " THEN "" ELSE Char(s, 1)) \o removeSpaces(Tail(s))

isExactOneClickMatch(query, keywords) ==
  LET qLower == trim(toLowerCase(query))
  IN \E k \in 1..Len(keywords) :
       LET kwLower == toLowerCase(keywords[k])
       IN \/ qLower = kwLower
          \/ removeSpaces(qLower) = removeSpaces(kwLower)

GIBBERISH == << "xyz", "qwer", "asdf", "zxcv", "hjkl", "bnm" >>

isMeaningless(q0) ==
  LET q == toLowerCase(trim(q0))
  IN \/ Len(q) < 2
     \/ ~\E i \in 1..Len(q) : IsLetter(Char(q, i))
     \/ ~\E i \in 1..Len(q) : Char(q, i) \in {"a", "e", "i", "o", "u"}
     \/ /\ Len(q) < 6
        /\ \E g \in 1..Len(GIBBERISH) : includes(q, GIBBERISH[g])

\* /(?:class|grade|standard)\s*(\d+)/ at position i: index after the word
standardWordEnd(s, i) ==
  IF StartsAt(s, i, "class") THEN i + 5
  ELSE IF StartsAt(s, i, "grade") THEN i + 5
  ELSE IF StartsAt(s, i, "standard") THEN i + 8
  ELSE 0

SUBJECT_WORDS == << "maths", "math", "english", "science", "hindi", "evs", "art",
                    "craft", "gk", "computer", "telugu" >>

\* SUBJECT_NAMES[w] || w for a word w of SUBJECT_WORDS
SUBJECT_NAMES(w) == IF w = "math" THEN "maths" ELSE w

parseClassSubject(query) ==
  LET s == toLowerCase(query)
      ClassAt(p) == /\ standardWordEnd(s, p) > 0
                    /\ digitsEnd(s, skipWS(s, standardWordEnd(s, p)))
                         > skipWS(s, standardWordEnd(s, p))
      cp == LeftmostPos(s, ClassAt)
      cq == skipWS(s, standardWordEnd(s, cp))
      SubjectAt(p) == \E w \in 1..Len(SUBJECT_WORDS) : StartsAt(s, p, SUBJECT_WORDS[w])
      sp == LeftmostPos(s, SubjectAt)
      sw == CHOOSE w \in 1..Len(SUBJECT_WORDS) :
              /\ StartsAt(s, sp, SUBJECT_WORDS[w])
              /\ \A v \in 1..(w - 1) : ~StartsAt(s, sp, SUBJECT_WORDS[v])
  IN [classNum |-> IF cp = 0 THEN NULL ELSE Some(parseInt(SubSeq(s, cq, digitsEnd(s, cq) - 1))),
      subject |-> IF sp = 0 THEN NULL ELSE Some(SUBJECT_NAMES(SUBJECT_WORDS[sw]))]

(***************************************************************************)
(* Spelling corrector of the chat handler                                  *)
(***************************************************************************)
Min3(a, b, c) == Min(a, Min(b, c))

\* one row of the distance matrix: row i for the character c of b, from
\* column j on; cur holds the columns 0..j-1 of the row
RECURSIVE levRow(_, _, _, _, _)
levRow(a, c, prevRow, j, cur) ==
  IF Len(cur) > Len(a) THEN cur
  ELSE levRow(a, c, prevRow, j + 1,
              Append(cur, Min3(prevRow[j + 1] + 1,
                               cur[j] + 1,
                               prevRow[j] + (IF Char(a, j) = c THEN 0 ELSE 1))))

RECURSIVE levRows(_, _, _, _)
levRows(a, b, i, prevRow) ==
  IF i > Len(b) \/ Len(prevRow) <= Len(a) THEN prevRow[Len(prevRow)]
  ELSE levRows(a, b, i + 1, levRow(a, Char(b, i), prevRow, 1, <<i>>))

\* a distance whose shortcut for an empty a returns the length of a
levLowerWrongLength(a, b) ==
  IF a = b THEN 0
  ELSE IF Len(a) = 0 THEN Len(a)
  ELSE IF Len(b) = 0 THEN Len(a)
  ELSE levRows(a, b, 1, [j \in 1..(Len(a) + 1) |-> j - 1])

levLower(a, b) ==
  IF a = b THEN 0
  ELSE IF Len(a) = 0 THEN Len(b)
  ELSE IF Len(b) = 0 THEN Len(a)
  ELSE levRows(a, b, 1, [j \in 1..(Len(a) + 1) |-> j - 1])

levenshtein(a, b) == levLower(toLowerCase(a), toLowerCase(b))

\* Object.entries(COMMON_WORDS): <<misspelled, correct>>, in key order
COMMON_WORDS ==
  << <<"puzle", "puzzle">>, <<"puzel", "puzzle">>, <<"puzzles", "puzzle">>,
     <<"puzles", "puzzle">>, <<"puzzl", "puzzle">>, <<"puzzel", "puzzle">>,
     <<"imges", "images">>, <<"imags", "images">>, <<"imagse", "images">>,
     <<"iamges", "images">>, <<"pictres", "pictures">>,
     <<"picutres", "pictures">>, <<"picturs", "pictures">>,
     <<"chrat", "chart">>, <<"chrts", "charts">>, <<"chrats", "charts">>,
     <<"cahrt", "chart">>, <<"animls", "animals">>,
     <<"anmals", "animals">>, <<"animales", "animals">>,
     <<"animlas", "animals">>, <<"maths", "maths">>, <<"mathss", "maths">>,
     <<"mats", "maths">>, <<"mahs", "maths">>, <<"scince", "science">>,
     <<"sceince", "science">>, <<"sciense", "science">>,
     <<"sicence", "science">>, <<"englsh", "english">>,
     <<"engish", "english">>, <<"enlgish", "english">>, <<"exm", "exam">>,
     <<"exams", "exam">>, <<"exma", "exam">>, <<"examm", "exam">>,
     <<"tps", "tips">>, <<"tipss", "tips">>, <<"tisp", "tips">>,
     <<"workshet", "worksheet">>, <<"workseet", "worksheet">>,
     <<"worksheets", "worksheets">>, <<"worksehet", "worksheet">>,
     <<"worsheet", "worksheet">>, <<"sylabus", "syllabus">>,
     <<"sillabus", "syllabus">>, <<"syllbus", "syllabus">>,
     <<"syllabu", "syllabus">>, <<"fruts", "fruits">>,
     <<"fruist", "fruits">>, <<"frutis", "fruits">>,
     <<"fruite", "fruits">>, <<"fruit", "fruit">>, <<"fruits", "fruits">>,
     <<"fruites", "fruits">>, <<"smrat", "smart">>, <<"samrt", "smart">>,
     <<"smrt", "smart">>, <<"wll", "wall">>, <<"wal", "wall">>,
     <<"walll", "wall">>, <<"telgu", "telugu">>, <<"telegu", "telugu">>,
     <<"telugue", "telugu">>, <<"poam", "poem">>, <<"pome", "poem">>,
     <<"poams", "poems">>, <<"pomes", "poems">>, <<"clas", "class">>,
     <<"clss", "class">>, <<"classs", "class">>, <<"bnk", "bank">>,
     <<"bnak", "bank">>, <<"bakn", "bank">>, <<"mcqs", "mcq">>,
     <<"mcq's", "mcq">>, <<"mcss", "mcq">>, <<"resourse", "resource">>,
     <<"resorce", "resource">>, <<"resourc", "resource">>,
     <<"vido", "video">>, <<"vidoe", "video">>, <<"vidoes", "videos">>,
     <<"vidos", "videos">> >>

\* COMMON_WORDS[word], NULL when word is no key
\* the lower-case names an object literal inherits from Object.prototype:
\* table[word] is the function Object for "constructor" and the prototype
\* object for "__proto__", both truthy
inheritedProperty(word) == word \in { "constructor", "__proto__" }

\* String(table[word]) for an inherited name, as Array.prototype.join
\* writes it
inheritedText(word) ==
  IF word = "constructor" THEN "function Object() { [native code] }"
  ELSE "[object Object]"

\* a lookup in a dictionary whose entry for "fruits" is "fruit"
commonWordChained(word) ==
  IF word = "fruits" THEN Some("fruit")
  ELSE IF \E i \in 1..Len(COMMON_WORDS) : COMMON_WORDS[i][1] = word
  THEN Some(COMMON_WORDS[CHOOSE i \in 1..Len(COMMON_WORDS) :
                           COMMON_WORDS[i][1] = word][2])
  ELSE NULL

\* COMMON_WORDS[word], NULL when it is undefined
commonWord(word) ==
  IF \E i \in 1..Len(COMMON_WORDS) : COMMON_WORDS[i][1] = word
  THEN Some(COMMON_WORDS[CHOOSE i \in 1..Len(COMMON_WORDS) :
                           COMMON_WORDS[i][1] = word][2])
  ELSE IF inheritedProperty(word) THEN Some(inheritedText(word))
  ELSE NULL

\* one iteration of the first loop of correctSpelling, for entry i: best is
\* <<bestMatch, bestDistance>>, dist the distance to the misspelled key,
\* distToCorrect the distance to its correct word
bestMatchStep(i, best, dist, distToCorrect) ==
  IF dist < best[2]
  THEN << COMMON_WORDS[i][2], Min(dist, distToCorrect) >>
  ELSE IF distToCorrect < best[2]
       THEN << COMMON_WORDS[i][2], distToCorrect >>
       ELSE best

\* the iterations for the entries lo..hi, in order (the range is halved to
\* keep the evaluation shallow; no distance is below 0, so a best distance
\* of 0 stays)
RECURSIVE bestMatchLoop(_, _, _, _)
bestMatchLoop(word, lo, hi, best) ==
  IF best[2] = 0 \/ lo > hi THEN best
  ELSE IF lo = hi
       THEN bestMatchStep(lo, best,
                          levenshtein(word, COMMON_WORDS[lo][1]),
                          levenshtein(word, COMMON_WORDS[lo][2]))
       ELSE bestMatchLoop(word, (lo + hi) \div 2 + 1, hi,
                          bestMatchLoop(word, lo, (lo + hi) \div 2, best))

\* the second loop of correctSpelling: the first correct word with the
\* phonetic code wordSoundex, NULL when there is none
soundexMatches(wordSoundex) ==
  { i \in 1..Len(COMMON_WORDS) : soundex(COMMON_WORDS[i][2]) = wordSoundex }

firstCorrect(matches) ==
  IF matches = {} THEN NULL
  ELSE Some(COMMON_WORDS[CHOOSE i \in matches : \A j \in matches : i <= j][2])

soundexLoopWords(wordSoundex) == firstCorrect(soundexMatches(wordSoundex))

phoneticOr(bestMatch, found) ==
  IF IsNull(found) THEN bestMatch ELSE ValueOf(found)

afterBestMatch(word, bestMatch) ==
  IF bestMatch = word /\ Len(word) > 3
  THEN phoneticOr(bestMatch, soundexLoopWords(soundex(word)))
  ELSE bestMatch

correctWord(word) ==
  IF ~IsNull(commonWord(word)) THEN ValueOf(commonWord(word))
  ELSE afterBestMatch(word,
         bestMatchLoop(word, 1, Len(COMMON_WORDS), << word, 3 >>)[1])

RECURSIVE mapCorrectWord(_)
mapCorrectWord(words) ==
  IF words = <<>> THEN <<>>
  ELSE <<correctWord(Head(words))>> \o mapCorrectWord(Tail(words))

correctSpelling(text) == join(mapCorrectWord(split(toLowerCase(text))), " ")

(***************************************************************************)
(* Synonym Expander                                                        *)
(***************************************************************************)
\* the distance matrix of levenshteinDistance is that of levenshtein,
\* without the conversion to lower case and the shortcuts
levenshteinDistance(a, b) ==
  levRows(a, b, 1, [j \in 1..(Len(a) + 1) |-> j - 1])

Max(a, b) == IF a > b THEN a ELSE b

\* fuzzyMatch(query, target, threshold) of the expander, the threshold in
\* tenths: 1 - distance / maxLength >= threshold
fuzzyMatchThreshold(w, target, tenths) ==
  10 * (Max(Len(w), Len(target))
        - levenshteinDistance(toLowerCase(w), toLowerCase(target)))
    >= tenths * Max(Len(w), Len(target))

\* Object.entries(SYNONYMS), in key order; a character outside ASCII is
\* written ~
SYNONYMS ==
  << [key |-> "animal",
      syns |-> << "animals", "creature", "creatures", "beast", "wildlife" >>],
     [key |-> "monkey",
      syns |-> << "monkeys", "ape", "primate", "chimp" >>],
     [key |-> "dog",
      syns |-> << "dogs", "puppy", "puppies", "canine" >>],
     [key |-> "cat",
      syns |-> << "cats", "kitten", "kittens", "feline" >>],
     [key |-> "bird",
      syns |-> << "birds", "avian", "fowl" >>],
     [key |-> "fish",
      syns |-> << "fishes", "aquatic" >>],
     [key |-> "elephant",
      syns |-> << "elephants", "pachyderm" >>],
     [key |-> "lion",
      syns |-> << "lions", "leo" >>],
     [key |-> "tiger",
      syns |-> << "tigers" >>],
     [key |-> "fruit",
      syns |-> << "fruits", "fruut", "froot" >>],
     [key |-> "flower",
      syns |-> << "flowers", "blossom", "bloom" >>],
     [key |-> "plant",
      syns |-> << "plants", "vegetation", "flora" >>],
     [key |-> "tree",
      syns |-> << "trees", "woods", "forest" >>],
     [key |-> "vegetable",
      syns |-> << "vegetables", "veggies" >>],
     [key |-> "exam",
      syns |-> << "exams", "test", "tests", "examination", "quiz", "assessment" >>],
     [key |-> "study",
      syns |-> << "studies", "learn", "learning", "education" >>],
     [key |-> "book",
      syns |-> << "books", "textbook", "reading" >>],
     [key |-> "lesson",
      syns |-> << "lessons", "class", "lecture" >>],
     [key |-> "homework",
      syns |-> << "assignment", "work", "task" >>],
     [key |-> "question",
      syns |-> << "questions", "query", "queries" >>],
     [key |-> "answer",
      syns |-> << "answers", "solution", "solutions" >>],
     [key |-> "maths",
      syns |-> << "math", "mathematics", "arithmetic", "calculation" >>],
     [key |-> "science",
      syns |-> << "sciences", "scientific", "biology", "physics", "chemistry" >>],
     [key |-> "english",
      syns |-> << "language", "grammar", "vocabulary" >>],
     [key |-> "hindi",
      syns |-> << "~~~~~" >>],
     [key |-> "telugu",
      syns |-> << "~~~~~~" >>],
     [key |-> "color",
      syns |-> << "colors", "colour", "colours", "shade", "hue" >>],
     [key |-> "draw",
      syns |-> << "drawing", "sketch", "art" >>],
     [key |-> "paint",
      syns |-> << "painting", "artwork" >>],
     [key |-> "picture",
      syns |-> << "pictures", "image", "images", "photo", "photos" >>],
     [key |-> "shape",
      syns |-> << "shapes", "geometry", "geometric" >>],
     [key |-> "number",
      syns |-> << "numbers", "numeral", "digit", "digits" >>],
     [key |-> "circle",
      syns |-> << "circles", "round" >>],
     [key |-> "square",
      syns |-> << "squares" >>],
     [key |-> "triangle",
      syns |-> << "triangles" >>],
     [key |-> "write",
      syns |-> << "writing", "written", "compose" >>],
     [key |-> "read",
      syns |-> << "reading", "comprehension" >>],
     [key |-> "count",
      syns |-> << "counting", "enumerate" >>],
     [key |-> "add",
      syns |-> << "addition", "plus", "sum" >>],
     [key |-> "subtract",
      syns |-> << "subtraction", "minus", "difference" >>],
     [key |-> "interview",
      syns |-> << "interviews", "exam tips", "preparation", "tips" >>] >>

\* Set.prototype.add on a set kept in insertion order
setAdd(expanded, x) ==
  IF \E i \in 1..Len(expanded) : expanded[i] = x THEN expanded
  ELSE Append(expanded, x)

RECURSIVE setAddAll(_, _)
setAddAll(expanded, xs) ==
  IF xs = <<>> THEN expanded
  ELSE setAddAll(setAdd(expanded, Head(xs)), Tail(xs))

seqIncludes(xs, x) == \E i \in 1..Len(xs) : xs[i] = x

\* if (SYNONYMS[word]) SYNONYMS[word].forEach(syn => expanded.add(syn))
directSynonyms(expanded, w) ==
  IF \E i \in 1..Len(SYNONYMS) : SYNONYMS[i].key = w
  THEN setAddAll(expanded,
         SYNONYMS[CHOOSE i \in 1..Len(SYNONYMS) : SYNONYMS[i].key = w].syns)
  ELSE expanded

\* the reverse lookup for the entries lo..hi, in order (the range is halved
\* to keep the evaluation shallow; expanded is never empty)
RECURSIVE reverseLoop(_, _, _, _)
reverseLoop(expanded, w, lo, hi) ==
  IF Len(expanded) = 0 \/ lo > hi THEN expanded
  ELSE IF lo = hi
       THEN IF seqIncludes(SYNONYMS[lo].syns, w)
            THEN setAddAll(setAdd(expanded, SYNONYMS[lo].key), SYNONYMS[lo].syns)
            ELSE expanded
       ELSE reverseLoop(reverseLoop(expanded, w, lo, (lo + hi) \div 2),
                        w, (lo + hi) \div 2 + 1, hi)

\* the fuzzy lookup for the entries lo..hi, in order
RECURSIVE fuzzyLoop(_, _, _, _)
fuzzyLoop(expanded, w, lo, hi) ==
  IF Len(expanded) = 0 \/ lo > hi THEN expanded
  ELSE IF lo = hi
       THEN IF fuzzyMatchThreshold(w, SYNONYMS[lo].key, 8)
            THEN setAddAll(setAdd(expanded, SYNONYMS[lo].key), SYNONYMS[lo].syns)
            ELSE expanded
       ELSE fuzzyLoop(fuzzyLoop(expanded, w, lo, (lo + hi) \div 2),
                      w, (lo + hi) \div 2 + 1, hi)

\* the body of words.forEach for one word
expandWord(expanded, w) ==
  fuzzyLoop(
    reverseLoop(directSynonyms(setAdd(expanded, w), w), w, 1, Len(SYNONYMS)),
    w, 1, Len(SYNONYMS))

RECURSIVE expandWords(_, _)
expandWords(expanded, ws) ==
  IF ws = <<>> THEN expanded
  ELSE expandWords(expandWord(expanded, Head(ws)), Tail(ws))

\* SYNONYMS[word].forEach throws a TypeError when SYNONYMS[word] is a value
\* the object literal inherits: truthy, and no array
expandThrows(text) ==
  \E i \in 1..Len(split(toLowerCase(text))) :
    inheritedProperty(split(toLowerCase(text))[i])

\* Array.from(expanded), when no word makes the expander throw
expandWithSynonyms(text) ==
  expandWords(<< toLowerCase(text) >>, split(toLowerCase(text)))

(***************************************************************************)
(* Chat handler: translator, intent classifier, remote search.  The reply  *)
(* of an external service is an input of the operator that handles it.     *)
(***************************************************************************)
\* /^[a-zA-Z0-9\s.,!?-]+$/.test(text)
isEnglishText(text) ==
  /\ Len(text) >= 1
  /\ \A i \in 1..Len(text) :
       \/ IsLetter(Char(text, i))
       \/ IsDigit(Char(text, i))
       \/ Char(text, i) \in Whitespace
       \/ Char(text, i) \in {".", ",", "!", "?", "-"}

\* the translator's replies: ok is FALSE when the request throws or the
\* content is no JSON, translatedText is the field of the parsed object
translatorError == [ok |-> FALSE, translatedText |-> NULL]

TranslatorReplies ==
  { translatorError,
    [ok |-> TRUE, translatedText |-> NULL],
    [ok |-> TRUE, translatedText |-> Some("  ")],
    [ok |-> TRUE, translatedText |-> Some(" class 5 maths ")] }

\* result.translatedText?.trim() || text
translatedOr(translatedText, text) ==
  IF IsNull(translatedText) \/ trim(ValueOf(translatedText)) = "" THEN text
  ELSE trim(ValueOf(translatedText))

\* translateAndExtractKeyword(text) when the translator, if called, gives
\* reply: the translatedText returned and whether the translator was called
translateAndExtractKeyword(text, reply) ==
  IF isEnglishText(text) THEN [translatedText |-> text, called |-> FALSE]
  ELSE IF ~reply.ok THEN [translatedText |-> text, called |-> TRUE]
  ELSE [translatedText |-> translatedOr(reply.translatedText, text),
        called |-> TRUE]

\* the classifier's completions: ok is FALSE when the request throws or the
\* content is no JSON object, parsed is the object (a field that is absent
\* or null is NULL)
emptyParsed ==
  [message |-> NULL, searchQuery |-> NULL, searchType |-> NULL,
   classNum |-> NULL, subject |-> NULL, suggestions |-> NULL]

completionError == [ok |-> FALSE, parsed |-> emptyParsed]

ParsedReplies ==
  { emptyParsed,
    [message |-> Some("Hello! I'm your MySchool Assistant. How can I help you find educational resources today?"),
     searchQuery |-> NULL, searchType |-> Some("greeting"),
     classNum |-> NULL, subject |-> NULL,
     suggestions |-> Some(<< "Search for animals", "Class 5 Maths", "Exam tips" >>)],
    [message |-> Some("Opening Class 5 Maths!"),
     searchQuery |-> NULL, searchType |-> Some("class_subject"),
     classNum |-> Some(5), subject |-> Some("maths"),
     suggestions |-> Some(<<>>)],
    [message |-> Some("Opening Class 5 Maths!"),
     searchQuery |-> Some("class 5 maths"), searchType |-> Some("class_subject"),
     classNum |-> Some(5), subject |-> Some("maths"),
     suggestions |-> Some(<<>>)],
    [message |-> Some("Opening Class 3!"),
     searchQuery |-> Some("Grade 3"), searchType |-> Some("class_subject"),
     classNum |-> Some(0), subject |-> Some(""),
     suggestions |-> NULL],
    [message |-> Some("Here are results for lion!"),
     searchQuery |-> Some("lion"), searchType |-> Some("direct_search"),
     classNum |-> NULL, subject |-> NULL,
     suggestions |-> Some(<<>>)],
    [message |-> Some("Here are results for maths worksheets!"),
     searchQuery |-> Some("maths worksheets"), searchType |-> Some("direct_search"),
     classNum |-> NULL, subject |-> NULL,
     suggestions |-> Some(<<>>)],
    [message |-> Some("Let me help you find something!"),
     searchQuery |-> NULL, searchType |-> Some("invalid"),
     classNum |-> NULL, subject |-> NULL,
     suggestions |-> Some(<< "Animals", "Class 5 Maths" >>)],
    [message |-> Some(""),
     searchQuery |-> Some(";lkjasdf"), searchType |-> Some("invalid"),
     classNum |-> NULL, subject |-> NULL,
     suggestions |-> Some(<< "Animals", "Class 5 Maths" >>)] }

Completions ==
  { completionError } \cup { [ok |-> TRUE, parsed |-> p] : p \in ParsedReplies }

\* x || d for a string x, x || null, and the same for a number
stringOr(x, d) == IF IsNull(x) \/ ValueOf(x) = "" THEN d ELSE ValueOf(x)

stringOrNull(x) == IF IsNull(x) \/ ValueOf(x) = "" THEN NULL ELSE x

numberOrNull(x) == IF IsNull(x) \/ ValueOf(x) = 0 THEN NULL ELSE x

\* parsed.suggestions || []
arrayOr(x, d) == IF IsNull(x) THEN d ELSE ValueOf(x)

\* the response getAIResponse returns from its catch block
defaultAIResponse ==
  [message |-> "Hello! How can I help you find educational resources today?",
   searchQuery |-> NULL,
   searchType |-> "greeting",
   classNum |-> NULL,
   subject |-> NULL,
   suggestions |-> << "Search for animals", "Explore Class 5 Maths",
                      "Find exam tips" >>]

\* getAIResponse with a catch block that answers as for a parsed empty
\* object
getAIResponseNoDefault(completion) ==
  [message |-> stringOr(completion.parsed.message, "How can I help?"),
   searchQuery |-> stringOrNull(completion.parsed.searchQuery),
   searchType |-> stringOr(completion.parsed.searchType, "direct_search"),
   classNum |-> numberOrNull(completion.parsed.classNum),
   subject |-> stringOrNull(completion.parsed.subject),
   suggestions |-> arrayOr(completion.parsed.suggestions, <<>>)]

\* getAIResponse(userMessage, history) when the classifier gives completion
getAIResponse(completion) ==
  IF ~completion.ok THEN defaultAIResponse
  ELSE [message |-> stringOr(completion.parsed.message, "How can I help?"),
        searchQuery |-> stringOrNull(completion.parsed.searchQuery),
        searchType |-> stringOr(completion.parsed.searchType, "direct_search"),
        classNum |-> numberOrNull(completion.parsed.classNum),
        subject |-> stringOrNull(completion.parsed.subject),
        suggestions |-> arrayOr(completion.parsed.suggestions, <<>>)]

buildSearchUrl(ai) ==
  IF ai.searchType = "invalid" THEN BASE_URL \o "/views/academic"
  ELSE IF ai.searchType = "class_subject" /\ ~IsNull(ai.classNum)
       THEN BASE_URL \o "/views/academic/class/class-"
              \o toString(ValueOf(ai.classNum))
  ELSE IF ~IsNull(ai.searchQuery)
       THEN BASE_URL \o "/views/sections/result?text="
              \o encodeURIComponent(ValueOf(ai.searchQuery))
  ELSE ""

\* the portal's replies to a search: kind is "error" when the request
\* throws, the status is not ok or the body is no JSON, "malformed" when the
\* body is JSON without a results array, "ok" otherwise
PortalResults ==
  << [path |-> "/r/1", title |-> "Lion", category |-> "animals", thumbnail |-> "/t/1"],
     [path |-> "/r/2", title |-> "Lion cub", category |-> "animals", thumbnail |-> "/t/2"],
     [path |-> "/r/3", title |-> "Numbers", category |-> "maths", thumbnail |-> "/t/3"],
     [path |-> "/r/4", title |-> "Shapes", category |-> "maths", thumbnail |-> "/t/4"] >>

PortalReplies ==
  { [kind |-> "error", results |-> <<>>],
    [kind |-> "malformed", results |-> <<>>],
    [kind |-> "ok", results |-> <<>>],
    [kind |-> "ok", results |-> SubSeq(PortalResults, 1, 1)],
    [kind |-> "ok", results |-> PortalResults] }

\* fetchPortalResults(query, size) when the portal gives reply: results is
\* NULL when the body has no results array
fetchPortalResults(term, reply) ==
  IF reply.kind = "error" THEN [results |-> Some(<<>>), query |-> term]
  ELSE IF reply.kind = "malformed" THEN [results |-> NULL, query |-> term]
  ELSE [results |-> Some(reply.results), query |-> term]

\* Object.entries(FALLBACK_SEARCHES), in key order
FALLBACK_SEARCHES ==
  << [category |-> "default",
      terms |-> << "animals", "flowers", "shapes", "numbers", "colors" >>],
     [category |-> "science",
      terms |-> << "animals", "plants", "nature", "experiments" >>],
     [category |-> "maths",
      terms |-> << "numbers", "shapes", "geometry", "addition" >>],
     [category |-> "english",
      terms |-> << "alphabet", "words", "reading", "writing" >>],
     [category |-> "art",
      terms |-> << "colors", "drawing", "painting", "shapes" >>],
     [category |-> "food",
      terms |-> << "fruits", "vegetables", "food items" >>],
     [category |-> "nature",
      terms |-> << "animals", "plants", "flowers", "trees" >>] >>

\* the category loop of findNearestResults from entry i on
RECURSIVE fallbackTermsLoop(_, _)
fallbackTermsLoop(lowerQuery, i) ==
  IF i > Len(FALLBACK_SEARCHES) THEN FALLBACK_SEARCHES[1].terms
  ELSE IF includes(lowerQuery, FALLBACK_SEARCHES[i].category)
       THEN FALLBACK_SEARCHES[i].terms
       ELSE fallbackTermsLoop(lowerQuery, i + 1)

fallbackTermsOf(originalQuery) ==
  fallbackTermsLoop(toLowerCase(originalQuery), 1)

\* thumbnails.map(r => r.title).slice(0, 3).join(", ")
RECURSIVE titles(_)
titles(rs) ==
  IF rs = <<>> THEN <<>> ELSE <<Head(rs).title>> \o titles(Tail(rs))

firstThree(seq) == SubSeq(seq, 1, Min(3, Len(seq)))

\* thumbnails.map(t => ({url: t.path, thumbnail, title, category}))
RECURSIVE mapThumbnails(_)
mapThumbnails(rs) ==
  IF rs = <<>> THEN <<>>
  ELSE << [url |-> Head(rs).path, thumbnail |-> Head(rs).thumbnail,
           title |-> Head(rs).title, category |-> Head(rs).category] >>
       \o mapThumbnails(Tail(rs))

\* a catch block that hands the error's message to the user
catchResponseLeak(error) ==
  [response |-> error,
   resourceUrl |-> "", resourceName |-> "", resourceDescription |-> "",
   suggestions |-> <<>>, searchType |-> "error", thumbnails |-> <<>>]

\* the response the catch block of the chat handler returns
catchResponse(error) ==
  [response |-> "I am here to help! What educational resources are you looking for?",
   resourceUrl |-> "", resourceName |-> "", resourceDescription |-> "",
   suggestions |-> << "Animals", "Class 5 Maths", "Exam Tips" >>,
   searchType |-> "greeting", thumbnails |-> <<>>]

\* the response of the try block
chatResponse(ai, url, name, description, thumbs) ==
  [response |-> ai.message,
   resourceUrl |-> url, resourceName |-> name,
   resourceDescription |-> description,
   suggestions |-> ai.suggestions,
   searchType |-> ai.searchType, thumbnails |-> mapThumbnails(thumbs)]

\* the resource fields of the direct-search branch once the thumbnails are
\* known: <<resourceUrl, resourceName, resourceDescription>>
directSearchFields(url, thumbs, fallback, fallbackQuery) ==
  IF Len(thumbs) > 0
  THEN << IF fallback
          THEN BASE_URL \o "/views/sections/result?text="
                 \o encodeURIComponent(fallbackQuery)
          ELSE url,
          IF fallback
          THEN "Showing related resources (" \o toString(Len(thumbs)) \o " found)"
          ELSE toString(Len(thumbs)) \o " resources found",
          join(firstThree(titles(thumbs)), ", ") >>
  ELSE << BASE_URL \o "/views/sections/result?text=educational+resources",
          "Explore educational resources",
          "Browse our collection of learning materials" >>

\* the resource fields taken from the engine's list: its first result, if
\* it has one
firstResultFields(url, results) ==
  IF Len(results) > 0
  THEN << results[1].url, results[1].name, results[1].description >>
  ELSE << url, "", "" >>

\* the resource fields of the other branches: the engine is asked when the
\* classifier gave a query and no greeting
engineFields(ai, url) ==
  IF ~IsNull(ai.searchQuery) /\ ai.searchType # "greeting"
  THEN firstResultFields(url, performPrioritySearch(ValueOf(ai.searchQuery)))
  ELSE << url, "", "" >>

(***************************************************************************)
(* Chat handler built on the engine                                        *)
(***************************************************************************)
\* the translator's replies with the keyword field of the parsed object
KeywordReplies ==
  { [ok |-> FALSE, translatedText |-> NULL, keyword |-> NULL],
    [ok |-> TRUE, translatedText |-> NULL, keyword |-> NULL],
    [ok |-> TRUE, translatedText |-> Some(" class 5 maths "), keyword |-> NULL],
    [ok |-> TRUE, translatedText |-> Some("pictures of a lion"),
     keyword |-> Some(" lion ")] }

\* the keyword translateAndExtractKeyword(text) returns:
\* result.keyword?.trim() || translatedText
keywordOf(text, reply) ==
  IF isEnglishText(text) \/ ~reply.ok THEN text
  ELSE translatedOr(reply.keyword,
                    translateAndExtractKeyword(text, reply).translatedText)

\* isNoMatch without the test for the search category
isNoMatchNoSearch(first) ==
  first.confidence < 30 \/ first.category = "none"

\* topResult.confidence < 0.3 || category === "none" || category === "search"
isNoMatch(first) ==
  first.confidence < 30 \/ first.category = "none" \/ first.category = "search"

\* the response the handler returns for the engine's first result
engineChatResponse(first) ==
  IF isNoMatch(first)
  THEN [response |-> "Relevant results not found. Please find nearest matching results below.",
        resourceUrl |-> "https://portal.myschoolct.com/views/academic",
        resourceName |-> "Browse Academic Resources",
        resourceDescription |-> "Explore all academic resources, classes, and subjects"]
  ELSE [response |-> IF first.confidence = 0 THEN first.description
                     ELSE "**" \o first.name \o "**",
        resourceUrl |-> first.url,
        resourceName |-> first.name,
        resourceDescription |-> first.description]

(***************************************************************************)
(* Queries of the model: up to MaxFragments fragments joined by one space  *)
(***************************************************************************)
MaxFragments == 2

Fragments ==
  { "", "smart wall", "class 5", "Grade 3", "maths", "computer", "age 5",
    "ok", ";lkjasdf" }

RECURSIVE FragmentSeqs(_)
FragmentSeqs(n) ==
  IF n = 0 THEN { <<>> }
  ELSE FragmentSeqs(n - 1)
       \cup { Append(fs, f) : fs \in FragmentSeqs(n - 1), f \in Fragments }

\* queries with several candidates in one tier, and the specification's
\* example of a keyword next to a gibberish-looking token
TieQueries ==
  { "image bank wall", "computer entertainment", "xyz123 science stuff" }

Queries ==
  { join(fs, " ") : fs \in FragmentSeqs(MaxFragments) } \cup TieQueries

(***************************************************************************)
(* State of the engine's caller: its position, the query it passes         *)
(* (searchQuery) and the list the call returned to it (searchResults).     *)
(* State of a chat request: its position (cpc), the input message, the     *)
(* locals of the handler, the external calls made so far (calls), the      *)
(* error that reached the catch block (chatError) and the returned         *)
(* response.                                                               *)
(* State of a request to the chat handler built on the engine: its         *)
(* position (epc), its input (userMessage, language), its locals and the   *)
(* returned response (engineResponse).                                     *)
(* State of the persistence: the writes started and not yet settled        *)
(* (pending) and whether a write has failed (saveFailed).                  *)
(* State of a caller of one of the text functions: its position (fpc), the *)
(* function (fname), its arguments (fargs) and the value returned          *)
(* (fresult).                                                              *)
(***************************************************************************)
VARIABLES pc, searchQuery, searchResults

VARIABLES cpc, message, translatedMessage, correctedMessage, aiResponse,
          resourceUrl, fallbackTerms, calls, chatError, response

VARIABLES epc, userMessage, language, queryToSearch, translatedQuery,
          topResult, engineResponse

VARIABLES pending, saveFailed

VARIABLES fpc, fname, fargs, fresult

engineVars == <<pc, searchQuery, searchResults>>

chatVars ==
  <<cpc, message, translatedMessage, correctedMessage, aiResponse,
    resourceUrl, fallbackTerms, calls, chatError, response>>

engineChatVars ==
  <<epc, userMessage, language, queryToSearch, translatedQuery,
    topResult, engineResponse>>

persistVars == <<pending, saveFailed>>

callVars == <<fpc, fname, fargs, fresult>>

vars == <<engineVars, chatVars, engineChatVars, persistVars, callVars>>

noResponse == [response |-> ""]

ChatInit ==
  /\ cpc = "idle"
  /\ message = ""
  /\ translatedMessage = ""
  /\ correctedMessage = ""
  /\ aiResponse = defaultAIResponse
  /\ resourceUrl = ""
  /\ fallbackTerms = <<>>
  /\ calls = <<>>
  /\ chatError = NULL
  /\ response = noResponse

EngineChatInit ==
  /\ epc = "idle"
  /\ userMessage = ""
  /\ language = ""
  /\ queryToSearch = ""
  /\ translatedQuery = NULL
  /\ topResult = NULL
  /\ engineResponse = noResponse

CallInit ==
  /\ fpc = "idle"
  /\ fname = ""
  /\ fargs = <<>>
  /\ fresult = NULL

PersistInit ==
  /\ pending = <<>>
  /\ saveFailed = FALSE

Init ==
  /\ pc = "idle"
  /\ searchQuery = ""
  /\ searchResults = <<>>
  /\ ChatInit
  /\ EngineChatInit
  /\ PersistInit
  /\ CallInit

\* a caller invokes performPrioritySearch(q)
Call(q) ==
  /\ pc \in {"idle", "returned"}
  /\ pc' = "called"
  /\ searchQuery' = q
  /\ searchResults' = <<>>
  /\ UNCHANGED <<chatVars, engineChatVars, persistVars, callVars>>

\* performPrioritySearch returns its list
Return ==
  /\ pc = "called"
  /\ pc' = "returned"
  /\ searchResults' = performPrioritySearch(searchQuery)
  /\ UNCHANGED searchQuery
  /\ UNCHANGED <<chatVars, engineChatVars, persistVars, callVars>>

Next ==
  \/ \E q \in Queries : Call(q)
  \/ Return

Spec == Init /\ [][Next]_vars

(***************************************************************************)
(* The chat handler, one action for each stretch between two awaits        *)
(***************************************************************************)
Messages ==
  { "", "hi", "lion", "class 5 maths", "Monky pictres", ";lkjasdf", "~~~~~ 5" }

callOf(service, arg, ok) ==
  [service |-> service, arg |-> arg, ok |-> ok, found |-> 0]

\* the record of fetchPortalResults(term, 6): found is the number of
\* results it returned
portalCallOf(term, reply) ==
  [callOf("portal", term, reply.kind = "ok")
     EXCEPT !.found = IF reply.kind = "ok" THEN Len(reply.results) ELSE 0]

TypeError == "Cannot read properties of undefined (reading 'length')"

\* the response built from the resource fields
\* <<resourceUrl, resourceName, resourceDescription>>
respondWith(ai, fields, thumbs) ==
  chatResponse(ai, fields[1], fields[2], fields[3], thumbs)

\* the writes the try block starts before it returns: the two chat
\* messages, and the search log when the classifier gave a query
savesOf(ai) ==
  << "saveChatMessage", "saveChatMessage" >>
    \o (IF IsNull(ai.searchQuery) THEN <<>> ELSE << "logSearchQuery" >>)

\* a handler that awaits its writes inside the try block
responseAfterSaveAwaited(resp, op, insertOk) ==
  IF op = "saveChatMessage" /\ ~insertOk
  THEN catchResponse("insert failed")
  ELSE resp

\* the response of a request once a write it started has settled: the
\* writes are not awaited, the response is the one already returned
responseAfterSave(resp, op, insertOk) == resp

\* chat({message: m, ...}) is called
ChatRequest(m) ==
  /\ cpc \in {"idle", "done"}
  /\ cpc' = "translating"
  /\ message' = m
  /\ translatedMessage' = ""
  /\ correctedMessage' = ""
  /\ aiResponse' = defaultAIResponse
  /\ resourceUrl' = ""
  /\ fallbackTerms' = <<>>
  /\ calls' = <<>>
  /\ chatError' = NULL
  /\ response' = noResponse
  /\ pending' = <<>>
  /\ saveFailed' = FALSE
  /\ UNCHANGED <<engineVars, engineChatVars, callVars>>

\* Steps 1 and 2: translateAndExtractKeyword(message), correctSpelling
Translate(reply) ==
  /\ cpc = "translating"
  /\ translatedMessage' = translateAndExtractKeyword(message, reply).translatedText
  /\ correctedMessage' = correctSpelling(translatedMessage')
  /\ calls' = IF translateAndExtractKeyword(message, reply).called
              THEN Append(calls, callOf("translator", message, reply.ok))
              ELSE calls
  /\ cpc' = "classifying"
  /\ UNCHANGED <<message, aiResponse, resourceUrl, fallbackTerms, chatError,
                 response, engineVars, engineChatVars, persistVars,
                 callVars>>

\* Steps 3 and 4: getAIResponse(correctedMessage), buildSearchUrl; the
\* direct-search branch awaits the portal, the other branches run to the
\* return
Classify(completion) ==
  /\ cpc = "classifying"
  /\ aiResponse' = getAIResponse(completion)
  /\ calls' = Append(calls, callOf("classifier", correctedMessage, completion.ok))
  /\ IF aiResponse'.searchType = "direct_search" /\ ~IsNull(aiResponse'.searchQuery)
     THEN /\ resourceUrl' = buildSearchUrl(aiResponse')
          /\ cpc' = "searching"
          /\ UNCHANGED <<response, persistVars>>
     ELSE /\ resourceUrl' = engineFields(aiResponse', buildSearchUrl(aiResponse'))[1]
          /\ response' = respondWith(aiResponse',
                           engineFields(aiResponse', buildSearchUrl(aiResponse')),
                           <<>>)
          /\ pending' = savesOf(aiResponse')
          /\ UNCHANGED saveFailed
          /\ cpc' = "done"
  /\ UNCHANGED <<message, translatedMessage, correctedMessage, fallbackTerms,
                 chatError, engineVars, engineChatVars, callVars>>

\* the handler's catch block
Caught(error) ==
  /\ chatError' = Some(error)
  /\ response' = catchResponse(error)
  /\ cpc' = "done"
  /\ UNCHANGED <<resourceUrl, fallbackTerms, persistVars>>

\* the direct-search branch from the point where thumbnails is known
Finish(thumbs, usedFallback, fallbackQuery) ==
  /\ resourceUrl' = directSearchFields(resourceUrl, thumbs, usedFallback,
                                       fallbackQuery)[1]
  /\ response' = respondWith(aiResponse,
                   directSearchFields(resourceUrl, thumbs, usedFallback,
                                      fallbackQuery),
                   thumbs)
  /\ pending' = savesOf(aiResponse)
  /\ cpc' = "done"
  /\ UNCHANGED <<fallbackTerms, chatError, saveFailed>>

\* fetchPortalResults(aiResponse.searchQuery, 6) answers
PortalSearchResult(portalResults) ==
  IF IsNull(portalResults.results) THEN Caught(TypeError)
  ELSE IF Len(ValueOf(portalResults.results)) = 0
       THEN /\ fallbackTerms' = fallbackTermsOf(ValueOf(aiResponse.searchQuery))
            /\ cpc' = "fallback"
            /\ UNCHANGED <<resourceUrl, chatError, response, persistVars>>
       ELSE Finish(ValueOf(portalResults.results), FALSE, "")

PortalSearch(reply) ==
  /\ cpc = "searching"
  /\ calls' = Append(calls, portalCallOf(ValueOf(aiResponse.searchQuery), reply))
  /\ PortalSearchResult(fetchPortalResults(ValueOf(aiResponse.searchQuery), reply))
  /\ UNCHANGED <<message, translatedMessage, correctedMessage, aiResponse,
                 engineVars, engineChatVars, callVars>>

\* findNearestResults: fetchPortalResults(term, 6) answers for the next
\* fallback term
\* findNearestResults going on to the next term after a non-empty answer
FallbackSearchResultKeepGoing(results) ==
  IF IsNull(results.results) THEN Caught(TypeError)
  ELSE IF Len(ValueOf(results.results)) > 0 /\ Tail(fallbackTerms) = <<>>
       THEN Finish(ValueOf(results.results), TRUE, results.query)
       ELSE /\ fallbackTerms' = Tail(fallbackTerms)
            /\ cpc' = IF Tail(fallbackTerms) = <<>> THEN "lastResort"
                      ELSE "fallback"
            /\ UNCHANGED <<resourceUrl, chatError, response, persistVars>>

FallbackSearchResult(results) ==
  IF IsNull(results.results) THEN Caught(TypeError)
  ELSE IF Len(ValueOf(results.results)) > 0
       THEN Finish(ValueOf(results.results), TRUE, results.query)
       ELSE /\ fallbackTerms' = Tail(fallbackTerms)
            /\ cpc' = IF Tail(fallbackTerms) = <<>> THEN "lastResort"
                      ELSE "fallback"
            /\ UNCHANGED <<resourceUrl, chatError, response, persistVars>>

FallbackSearch(reply) ==
  /\ cpc = "fallback"
  /\ fallbackTerms # <<>>
  /\ calls' = Append(calls, portalCallOf(Head(fallbackTerms), reply))
  /\ FallbackSearchResult(fetchPortalResults(Head(fallbackTerms), reply))
  /\ UNCHANGED <<message, translatedMessage, correctedMessage, aiResponse,
                 engineVars, engineChatVars, callVars>>

\* findNearestResults: the last resort answers, and the handler goes on
\* with what it returns
LastResortResult(fallbackResults) ==
  IF IsNull(fallbackResults.results) THEN Caught(TypeError)
  ELSE Finish(ValueOf(fallbackResults.results), TRUE, fallbackResults.query)

LastResort(reply) ==
  /\ cpc = "lastResort"
  /\ calls' = Append(calls, portalCallOf("educational resources", reply))
  /\ LastResortResult(fetchPortalResults("educational resources", reply))
  /\ UNCHANGED <<message, translatedMessage, correctedMessage, aiResponse,
                 engineVars, engineChatVars, callVars>>

\* a write started by the request settles; insertOk is FALSE when the
\* insert fails
ChatSettle(insertOk) ==
  /\ cpc = "done"
  /\ pending # <<>>
  /\ pending' = Tail(pending)
  /\ saveFailed' = (saveFailed \/ ~insertOk)
  /\ response' = responseAfterSave(response, Head(pending), insertOk)
  /\ UNCHANGED <<cpc, message, translatedMessage, correctedMessage,
                 aiResponse, resourceUrl, fallbackTerms, calls, chatError,
                 engineVars, engineChatVars, callVars>>

ChatNext ==
  \/ \E m \in Messages : ChatRequest(m)
  \/ \E reply \in TranslatorReplies : Translate(reply)
  \/ \E completion \in Completions : Classify(completion)
  \/ \E reply \in PortalReplies : PortalSearch(reply)
  \/ \E reply \in PortalReplies : FallbackSearch(reply)
  \/ \E reply \in PortalReplies : LastResort(reply)
  \/ \E insertOk \in BOOLEAN : ChatSettle(insertOk)

ChatSpec == Init /\ [][ChatNext]_vars

(***************************************************************************)
(* The chat handler built on the engine, one action for each stretch       *)
(* between two awaits.  The engine returns a list with a first element for *)
(* every query, so the handler's catch block is never entered.             *)
(***************************************************************************)
EngineMessages ==
  { join(fs, " ") : fs \in FragmentSeqs(1) } \cup TieQueries \cup Messages

\* language is "" when the request has none
Languages == { "", "en", "hi" }

\* chat({message: m, language: lang}) is called
EngineChatRequest(m, lang) ==
  /\ epc \in {"idle", "done"}
  /\ epc' = IF lang # "" /\ lang # "en" THEN "translating" ELSE "searching"
  /\ userMessage' = m
  /\ language' = lang
  /\ queryToSearch' = m
  /\ translatedQuery' = NULL
  /\ topResult' = NULL
  /\ engineResponse' = noResponse
  /\ pending' = <<>>
  /\ saveFailed' = FALSE
  /\ UNCHANGED <<engineVars, chatVars, callVars>>

\* translateAndExtractKeyword(message) answers
EngineChatTranslate(reply) ==
  /\ epc = "translating"
  /\ translatedQuery' =
       Some(translateAndExtractKeyword(userMessage, reply).translatedText)
  /\ queryToSearch' = keywordOf(userMessage, reply)
  /\ epc' = "searching"
  /\ UNCHANGED <<userMessage, language, topResult, engineResponse,
                 engineVars, chatVars, persistVars,
                 callVars>>

\* performPrioritySearch(queryToSearch), the response, the writes started
EngineChatRespond ==
  /\ epc = "searching"
  /\ topResult' = Some(performPrioritySearch(queryToSearch)[1])
  /\ engineResponse' = engineChatResponse(ValueOf(topResult'))
  /\ pending' = << "saveChatMessage", "saveChatMessage", "logSearchQuery" >>
  /\ epc' = "done"
  /\ UNCHANGED <<userMessage, language, queryToSearch, translatedQuery,
                 saveFailed, engineVars, chatVars, callVars>>

\* a write started by the request settles
EngineChatSettle(insertOk) ==
  /\ epc = "done"
  /\ pending # <<>>
  /\ pending' = Tail(pending)
  /\ saveFailed' = (saveFailed \/ ~insertOk)
  /\ engineResponse' = responseAfterSave(engineResponse, Head(pending), insertOk)
  /\ UNCHANGED <<epc, userMessage, language, queryToSearch, translatedQuery,
                 topResult, engineVars, chatVars, callVars>>

EngineChatNext ==
  \/ \E m \in EngineMessages, lang \in Languages : EngineChatRequest(m, lang)
  \/ \E reply \in KeywordReplies : EngineChatTranslate(reply)
  \/ EngineChatRespond
  \/ \E insertOk \in BOOLEAN : EngineChatSettle(insertOk)

EngineChatSpec == Init /\ [][EngineChatNext]_vars

(***************************************************************************)
(* Callers of the text functions: a call, then the function's return       *)
(***************************************************************************)
Invoke(name, args) ==
  /\ fpc \in {"idle", "returned", "thrown"}
  /\ fpc' = "called"
  /\ fname' = name
  /\ fargs' = args
  /\ fresult' = NULL
  /\ UNCHANGED <<engineVars, chatVars, engineChatVars, persistVars>>

\* the function throws
Throw(name) ==
  /\ fpc = "called"
  /\ fname = name
  /\ fpc' = "thrown"
  /\ UNCHANGED <<fname, fargs, fresult, engineVars, chatVars, engineChatVars,
                 persistVars>>

Reply(name, value) ==
  /\ fpc = "called"
  /\ fname = name
  /\ fpc' = "returned"
  /\ fresult' = Some(value)
  /\ UNCHANGED <<fname, fargs, engineVars, chatVars, engineChatVars,
                 persistVars>>

\* queries of up to MaxTokens words joined by one space, queries with other
\* whitespace, and the correct words of the dictionary
MaxTokens == 2

SpellTokens == { "exm", "Monky", "maths", "lion", "pictres", "Grade", "5" }

RECURSIVE TokenSeqs(_)
TokenSeqs(n) ==
  IF n = 0 THEN { <<>> }
  ELSE TokenSeqs(n - 1)
       \cup { Append(ts, t) : ts \in TokenSeqs(n - 1), t \in SpellTokens }

CorrectWords == { COMMON_WORDS[i][2] : i \in 1..Len(COMMON_WORDS) }

SpellingQueries ==
  { join(ts, " ") : ts \in TokenSeqs(MaxTokens) }
    \cup { " ", "  exam  tips ", "a\tb  of", "Clas 5\nMATHS",
           "constructor", "maths __proto__" }
    \cup CorrectWords

SpellNext ==
  \/ \E q \in SpellingQueries : Invoke("correctSpelling", << q >>)
  \/ Reply("correctSpelling", correctSpelling(fargs[1]))

SpellSpec == Init /\ [][SpellNext]_vars

\* words of up to MaxWordLen characters of a small alphabet, and a few
\* words of the dictionary's kind
MaxWordLen == 2

LevAlphabet == { "a", "B" }

RECURSIVE WordsUpTo(_)
WordsUpTo(n) ==
  IF n = 0 THEN { "" }
  ELSE WordsUpTo(n - 1)
       \cup { w \o c : w \in WordsUpTo(n - 1), c \in LevAlphabet }

LevWords == WordsUpTo(MaxWordLen) \cup { "b", "monky", "Monkey", "exam" }

DistanceNext ==
  \/ \E a \in LevWords, b \in LevWords : Invoke("levenshtein", << a, b >>)
  \/ \E a \in LevWords, b \in LevWords :
       Invoke("levenshteinDistance", << a, b >>)
  \/ Reply("levenshtein", levenshtein(fargs[1], fargs[2]))
  \/ Reply("levenshteinDistance", levenshteinDistance(fargs[1], fargs[2]))

DistanceSpec == Init /\ [][DistanceNext]_vars

\* words for the phonetic coder: a beginning followed by an ending
SoundexBeginnings == { "", "1", "R", "b", "ee", "Ts", "ph", "-m", " " }

SoundexEndings == { "", "obert", "22", "fpv", "ckq", "aeiou", "mnm", "lr" }

SoundexWords == { b \o e : b \in SoundexBeginnings, e \in SoundexEndings }

SoundexNext ==
  \/ \E w \in SoundexWords : Invoke("soundex", << w >>)
  \/ Reply("soundex", soundex(fargs[1]))

SoundexSpec == Init /\ [][SoundexNext]_vars

\* queries for the expander: the keys of the groups, a member of each
\* group, and queries of several words
ExpandQueries ==
  { SYNONYMS[i].key : i \in 1..Len(SYNONYMS) }
    \cup { SYNONYMS[i].syns[1] : i \in 1..Len(SYNONYMS) }
    \cup { "", "Exam Tips", "maths worksheets", "quiz for Monkeys", "lion",
           "xyzzy", "constructor" }

ExpandNext ==
  \/ \E q \in ExpandQueries : Invoke("expandWithSynonyms", << q >>)
  \/ /\ fpc = "called"
     /\ ~expandThrows(fargs[1])
     /\ Reply("expandWithSynonyms", expandWithSynonyms(fargs[1]))
  \/ /\ fpc = "called"
     /\ expandThrows(fargs[1])
     /\ Throw("expandWithSynonyms")

ExpandSpec == Init /\ [][ExpandNext]_vars

(***************************************************************************)
(* Tier conditions of the specified precedence                             *)
(***************************************************************************)
queryLowerOf(q) == trim(toLowerCase(q))

\* the resources one of whose keywords the query equals, internal
\* whitespace ignored
ExactResources(q) ==
  { i \in 1..Len(oneClickResources) :
      isExactOneClickMatch(queryLowerOf(q), oneClickResources[i].keywords) }

ClassFound(q) ==
  LET c == extractClassAndSubject(q).classNum
  IN ~IsNull(c) /\ ValueOf(c) >= 1 /\ ValueOf(c) <= 10

SubjectFound(q) == ~IsNull(extractClassAndSubject(q).subject)

SectionMatch(q) == sectionLoop(queryLowerOf(q), 1) # <<>>

\* the lowest-numbered tier whose condition holds for q
TierOf(q) ==
  IF ExactResources(q) # {} THEN 1
  ELSE IF isImageSearchTerm(q) THEN 2
  ELSE IF ClassFound(q) /\ SubjectFound(q) THEN 3
  ELSE IF ClassFound(q) THEN 4
  ELSE IF SectionMatch(q) THEN 5
  ELSE IF ~isMeaningless(q) THEN 6
  ELSE 7

TierCategory ==
  << "one_click", "image_bank", "class_subject", "class_subject", "section",
     "search", "none" >>

Returned == pc = "returned"

\* the confidences of the search results of the model's queries, and the
\* greatest of them
SearchConfidences == { searchResult(q).confidence : q \in Queries }

maxSearchConfidence ==
  CHOOSE c \in SearchConfidences : \A d \in SearchConfidences : c >= d

\* s ends with t
endsWith(s, t) ==
  Len(t) <= Len(s) /\ SubSeq(s, Len(s) - Len(t) + 1, Len(s)) = t

(***************************************************************************)
(* Properties of the Priority Search Engine                                *)
(***************************************************************************)
top == searchResults[1]

\* C1: every call of performPrioritySearch returns a list with at least one
\* SearchResult, whatever the query (empty, whitespace only, or a class
\* number found with a subject whose code is "unknown")
C1_NonEmpty == Returned => Len(searchResults) >= 1

\* a call returned for a query with a class number and a subject of code
\* "unknown" that no earlier tier answered
C1_Witness ==
  /\ Returned
  /\ ~isImageSearchTerm(searchQuery)
  /\ oneClickLoop(queryLowerOf(searchQuery), 1) = <<>>
  /\ ClassFound(searchQuery)
  /\ SubjectFound(searchQuery)
  /\ subjectData(ValueOf(extractClassAndSubject(searchQuery).subject)).code = "unknown"
  /\ Len(searchResults) >= 1

\* C2: the category of the returned result is that of the lowest-numbered
\* tier (exact one-click, image term, class+subject, class only, section,
\* generic search, fallback) whose condition holds for the query
C2_TierOrder ==
  Returned /\ searchResults # <<>> => top.category = TierCategory[TierOf(searchQuery)]

\* C3: a query equal to a keyword of a one-click resource, internal
\* whitespace ignored, returns exactly that resource, with category
\* one_click and confidence between 0.95 and 0.99
C3_ExactOneClick ==
  Returned /\ ExactResources(searchQuery) # {} =>
    /\ Len(searchResults) = 1
    /\ top.category = "one_click"
    /\ \E i \in ExactResources(searchQuery) : top.name = oneClickResources[i].name
    /\ top.confidence >= 95
    /\ top.confidence <= 99

\* C4: a result of category one_click is returned only for a query that is
\* near-exactly equal to a keyword of that resource
C4_OneClickOnlyExact ==
  Returned /\ searchResults # <<>> /\ top.category = "one_click" =>
    \E i \in ExactResources(searchQuery) : top.name = oneClickResources[i].name

\* C5: the class number extracted from a query, by the class/subject
\* extractor and by the chat handler's parser, is null or lies in [1,10]
InClassRange(c) == IsNull(c) \/ (ValueOf(c) >= 1 /\ ValueOf(c) <= 10)

C5_ClassBound ==
  Returned =>
    /\ InClassRange(extractClassAndSubject(searchQuery).classNum)
    /\ InClassRange(parseClassSubject(searchQuery).classNum)

\* C6: an empty, too short or gibberish query is resolved to the terminal
\* fallback: one result of category none with confidence 0
C6_GibberishFallback ==
  Returned /\ isMeaningless(searchQuery) =>
    /\ Len(searchResults) = 1
    /\ top.category = "none"
    /\ top.confidence = 0

\* C7: every one_click or class_subject result has a confidence strictly
\* greater than that of every search result, every search result one
\* strictly greater than that of every none result, which is exactly 0
C7_ConfidenceOrdering ==
  Returned /\ searchResults # <<>> =>
    /\ top.category \in {"one_click", "class_subject"} =>
         top.confidence > maxSearchConfidence
    /\ top.category = "search" =>
         top = searchResult(searchQuery) /\ top.confidence > fallbackResult.confidence
    /\ top.category = "none" =>
         top = fallbackResult /\ top.confidence = 0

\* a one-click result below the class+subject confidence was returned
C7_Witness ==
  /\ Returned
  /\ searchResults # <<>>
  /\ top.category = "one_click"
  /\ top.confidence < 95

\* C8: when class+subject is the first tier that matches (a class number in
\* [1,10] and a subject that clears the gate), the result is a class_subject
\* result of confidence 0.95 whose URL holds the class number and the
\* subject's portal code
C8_ClassSubjectUrl ==
  Returned /\ TierOf(searchQuery) = 3 =>
    LET ecs == extractClassAndSubject(searchQuery)
    IN /\ searchResults # <<>>
       /\ top.category = "class_subject"
       /\ top.confidence = 95
       /\ includes(top.url, toString(ValueOf(ecs.classNum)))
       /\ includes(top.url, subjectData(ValueOf(ecs.subject)).code)

\* C9: when class-only is the first tier that matches (a class number in
\* [1,10], no subject), the result is the grade's landing page, without
\* subject code or search parameter, of confidence between 0.85 and 0.9
C9_ClassOnly ==
  Returned /\ TierOf(searchQuery) = 4 =>
    /\ searchResults # <<>>
    /\ top.url = BASE_URL \o "/views/academic/class/class-"
                   \o toString(ValueOf(extractClassAndSubject(searchQuery).classNum))
    /\ top.confidence >= 85
    /\ top.confidence <= 90

\* C10: a query that matches none of tiers 1 to 5 and that the gibberish
\* detector does not flag returns a search result of confidence 0.5 whose
\* URL carries the query as its search parameter
C10_GenericSearch ==
  Returned /\ TierOf(searchQuery) = 6 =>
    /\ searchResults # <<>>
    /\ top.category = "search"
    /\ top.confidence = 50
    /\ endsWith(top.url, "=" \o encodeURIComponent(searchQuery))

(***************************************************************************)
(* Gibberish handling of the engine                                        *)
(***************************************************************************)
SeqToSet(seq) == { seq[i] : i \in 1..Len(seq) }

\* the keywords of the knowledge base: subjects, one-click resources and
\* sections
KeywordWords ==
  UNION ({ SeqToSet(subjects[i].keywords) : i \in 1..Len(subjects) }
         \cup { SeqToSet(oneClickResources[i].keywords) :
                  i \in 1..Len(oneClickResources) }
         \cup { SeqToSet(sections[i].keywords) : i \in 1..Len(sections) })

hasVowel(w) == \E i \in 1..Len(w) : Char(w, i) \in {"a", "e", "i", "o", "u"}

hasLetter(w) == \E i \in 1..Len(w) : IsLetter(Char(w, i))

wordsOf(q) == SeqToSet(split(queryLowerOf(q)))

\* a word of q is a keyword of the knowledge base and has a vowel
HasRecognizedKeyword(q) ==
  \E w \in wordsOf(q) : w \in KeywordWords /\ hasVowel(w)

\* a word of q has letters and a feature the gibberish detectors look for:
\* no vowel at all, or a keyboard-mashing substring
HasGibberishToken(q) ==
  \E w \in wordsOf(q) :
    /\ hasLetter(w)
    /\ \/ ~hasVowel(w)
       \/ \E g \in 1..Len(GIBBERISH) : includes(w, GIBBERISH[g])

\* C11: a query that holds a recognized keyword with vowels together with
\* a gibberish-looking token is never resolved to the terminal fallback
\* (category none)
C11_KeywordNotSuppressed ==
  Returned /\ HasRecognizedKeyword(searchQuery) /\ HasGibberishToken(searchQuery) =>
    /\ searchResults # <<>>
    /\ top.category # "none"

\* const isMeaningless = queryLower.length < 2 || !/^[a-zA-Z0-9\s]+$/.test(queryLower)
flaggedMeaningless(q) ==
  Len(queryLowerOf(q)) < 2 \/ ~isAlphanumericText(queryLowerOf(q))

\* one of the image, one-click, class/subject and section tiers has a match
\* for q
SomeTierMatches(q) ==
  \/ isImageSearchTerm(q)
  \/ oneClickLoop(queryLowerOf(q), 1) # <<>>
  \/ classResults(q) # <<>>
  \/ sectionLoop(queryLowerOf(q), 1) # <<>>

\* C12: the gibberish verdict decides the outcome only after the one-click,
\* image, class/subject and section matches have all failed: a query for
\* which one of those tiers matches is never resolved to the terminal
\* fallback, flagged as meaningless or not
C12_GibberishLast ==
  Returned /\ SomeTierMatches(searchQuery) =>
    /\ searchResults # <<>>
    /\ top.category \in {"image_bank", "one_click", "class_subject", "section"}
    /\ top # fallbackResult

\* a query flagged as meaningless got the result of the tier that matches it
C12_Witness ==
  /\ Returned
  /\ flaggedMeaningless(searchQuery)
  /\ SomeTierMatches(searchQuery)
  /\ top.category = "class_subject"

(***************************************************************************)
(* Choice among the candidates of one tier                                 *)
(***************************************************************************)
\* the raw similarity score of one-click resource i, of section i, for q
oneClickScore(q, i) ==
  calculateSimilarity(queryLowerOf(q), oneClickResources[i].keywords)

sectionScore(q, i) ==
  calculateSimilarity(queryLowerOf(q), sections[i].keywords)

\* C13: when several candidates of one tier match a query (several
\* one-click resources, or several sections), the one returned first is the
\* candidate with the highest raw similarity score
C13_HighestRawScore ==
  Returned /\ searchResults # <<>> =>
    /\ top.category = "one_click" =>
         \A i, j \in 1..Len(oneClickResources) :
           top.url = BASE_URL \o oneClickResources[i].url =>
             oneClickScore(searchQuery, j) <= oneClickScore(searchQuery, i)
    /\ top.category = "section" =>
         \A i, j \in 1..Len(sections) :
           top.url = BASE_URL \o sections[i].url =>
             sectionScore(searchQuery, j) <= sectionScore(searchQuery, i)


(***************************************************************************)
(* Chat requests whose external services fail                              *)
(***************************************************************************)
calledService(service) ==
  \E i \in 1..Len(calls) : calls[i].service = service

failedService(service) ==
  /\ calledService(service)
  /\ \A i \in 1..Len(calls) : calls[i].service = service => ~calls[i].ok

\* the resource fields of the first result of the engine
deterministicFields(results) ==
  << results[1].url, results[1].name >>

\* C15: when the translator and the classifier fail and no remote search
\* succeeds, the request ends without an error and its response carries the
\* resource of the engine's result for the text the handler holds.
C15_DeterministicResult ==
  ( /\ cpc = "done"
    /\ failedService("translator")
    /\ failedService("classifier")
    /\ \A i \in 1..Len(calls) : ~calls[i].ok )
  => /\ chatError = NULL
     /\ << response.resourceUrl, response.resourceName >>
          = deterministicFields(
                                performPrioritySearch(correctedMessage))

\* the greeting getAIResponse falls back to, as the chat response
greetingResponse ==
  [response |-> "Hello! How can I help you find educational resources today?",
   resourceUrl |-> "", resourceName |-> "", resourceDescription |-> "",
   suggestions |-> << "Search for animals", "Explore Class 5 Maths",
                      "Find exam tips" >>,
   searchType |-> "greeting", thumbnails |-> <<>>]

\* C16: when the classifier call fails, no error reaches the handler:
\* getAIResponse gave the greeting with a null searchQuery, and the chat
\* request returns that greeting.
C16_ClassifierFailureGreets ==
  (cpc \in {"searching", "fallback", "lastResort", "done"}
     /\ failedService("classifier"))
  => /\ aiResponse.searchType = "greeting"
     /\ IsNull(aiResponse.searchQuery)
     /\ cpc = "done"
     /\ chatError = NULL
     /\ response = greetingResponse

C16_Witness ==
  /\ cpc = "done"
  /\ failedService("classifier")
  /\ message = "lion"
  /\ response.searchType = "greeting"

(***************************************************************************)
(* Where the resource of a chat response comes from                        *)
(***************************************************************************)
\* the texts of a request the engine can be asked about
requestTexts ==
  { message, translatedMessage, correctedMessage }
    \cup (IF IsNull(aiResponse.searchQuery) THEN {}
          ELSE { ValueOf(aiResponse.searchQuery) })

\* C17: a chat response that carries a resource URL has the URL and the
\* name of the engine's top result for the query; the classifier's
\* searchType, classNum and subject do not choose the destination.
C17_ResourceFromEngine ==
  (cpc = "done" /\ chatError = NULL /\ response.resourceUrl # "")
  => \E text \in requestTexts :
       << response.resourceUrl, response.resourceName >>
         = deterministicFields(performPrioritySearch(text))

(***************************************************************************)
(* Retries of the remote search                                            *)
(***************************************************************************)
isPortalCall(call) == call.service = "portal"

\* the remote searches of the request so far, in order
portalCalls == SelectSeq(calls, isPortalCall)

\* the alternative terms the expander has for a query
alternativeTerms(text) == Tail(expandWithSynonyms(text))

\* C18: after a remote search that gave nothing, the next search is made
\* with one of the expander's alternative terms for the query when it has
\* any; the fallback terms of the topic category come only after them.
C18_SynonymsBeforeFallback ==
  (Len(portalCalls) >= 2 /\ alternativeTerms(portalCalls[1].arg) # <<>>)
  => seqIncludes(alternativeTerms(portalCalls[1].arg), portalCalls[2].arg)

(***************************************************************************)
(* Failures inside a chat request                                          *)
(***************************************************************************)
\* the help response of the handler's catch block
genericHelpResponse ==
  [response |-> "I am here to help! What educational resources are you looking for?",
   resourceUrl |-> "", resourceName |-> "", resourceDescription |-> "",
   suggestions |-> << "Animals", "Class 5 Maths", "Exam Tips" >>,
   searchType |-> "greeting", thumbnails |-> <<>>]

onlyEnglishCharacters(text) ==
  \A i \in 1..Len(text) :
    \/ IsLetter(Char(text, i))
    \/ IsDigit(Char(text, i))
    \/ Char(text, i) \in Whitespace
    \/ Char(text, i) \in {".", ",", "!", "?", "-"}

\* C20: for a message of only ASCII letters, digits, whitespace and the
\* punctuation . , ! ? - the translator is not called and the translated
\* text is the message.
C20_EnglishPassesThrough ==
  (cpc \notin {"idle", "translating"} /\ onlyEnglishCharacters(message))
  => /\ ~calledService("translator")
     /\ translatedMessage = message

(***************************************************************************)
(* Low-confidence results in the chat handler built on the engine          *)
(***************************************************************************)
lowConfidence(first) ==
  first.confidence < 30 \/ first.category \in {"none", "search"}

nearestMatches ==
  "Relevant results not found. Please find nearest matching results below."

tokensOf(text) == SelectSeqBy(split(text), 0)

spellingReturned == fpc = "returned" /\ fname = "correctSpelling"

sameTokens(in, out) ==
  /\ Len(out) = Len(in)
  /\ \A i \in 1..Len(out) : out[i] = in[i] \/ out[i] \in CorrectWords

\* C22: correctSpelling returns as many whitespace-delimited tokens as its
\* input has, in the same order, each the lowercased input token or a
\* correct word of the dictionary.
C22_SameTokens ==
  spellingReturned
  => sameTokens(tokensOf(toLowerCase(fargs[1])), tokensOf(ValueOf(fresult)))

distance(name, a, b) ==
  IF name = "levenshtein" THEN levenshtein(a, b)
  ELSE levenshteinDistance(a, b)

distanceReturned ==
  fpc = "returned" /\ fname \in {"levenshtein", "levenshteinDistance"}

\* C24: the edit distance of a string to itself is 0, the distance of a
\* and b is the distance of b and a, and no distance is negative; empty
\* strings included.
C24_Metric ==
  distanceReturned
  => /\ ValueOf(fresult) >= 0
     /\ ValueOf(fresult) = distance(fname, fargs[2], fargs[1])
     /\ fargs[1] = fargs[2] => ValueOf(fresult) = 0

C24_Witness ==
  /\ distanceReturned
  /\ fargs = << "", "aB" >>
  /\ ValueOf(fresult) = 2

(***************************************************************************)
(* Phonetic coder                                                          *)
(***************************************************************************)
soundexReturned == fpc = "returned" /\ fname = "soundex"

\* the positions of the ASCII letters of a word
letterPositions(w) == { i \in 1..Len(w) : IsLetter(Char(w, i)) }

firstLetterOf(w) ==
  toUpperCase(Char(w, CHOOSE i \in letterPositions(w) :
                        \A j \in letterPositions(w) : i <= j))

isClassDigit(c) == c \in {"0", "1", "2", "3", "4", "5", "6"}

expandFinished ==
  fpc \in {"returned", "thrown"} /\ fname = "expandWithSynonyms"

\* the groups a token belongs to, as a key or as a member
groupsOf(token) ==
  { i \in 1..Len(SYNONYMS) :
      SYNONYMS[i].key = token \/ seqIncludes(SYNONYMS[i].syns, token) }

\* the first term is the lowercased query, and for every token of the
\* query the terms hold the key and the synonyms of each of its groups
expandsGroups(text, terms) ==
  /\ terms[1] = toLowerCase(text)
  /\ \A token \in SeqToSet(tokensOf(toLowerCase(text))) :
       \A i \in groupsOf(token) :
         /\ seqIncludes(terms, SYNONYMS[i].key)
         /\ \A k \in 1..Len(SYNONYMS[i].syns) :
              seqIncludes(terms, SYNONYMS[i].syns[k])

\* C26: for every query expandWithSynonyms returns a list whose first
\* element is the lowercased query and which holds, for every token that
\* is a key or a member of a synonym group, that group's key and synonyms.
C26_ExpandsGroups ==
  expandFinished
  => /\ fpc = "returned"
     /\ expandsGroups(fargs[1], ValueOf(fresult))

\* ------------------------------------------------------------------
\* Class/subject extractor applied on its own
\* ------------------------------------------------------------------

SubjectQueries == { join(fs, " ") : fs \in FragmentSeqs(2) } \cup TieQueries

SubjectNext ==
  \/ \E q \in SubjectQueries : Invoke("extractClassAndSubject", << q >>)
  \/ Reply("extractClassAndSubject", extractClassAndSubject(fargs[1]))

SubjectSpec == Init /\ [][SubjectNext]_vars

subjectScores(query) ==
  LET queryLower == trim(toLowerCase(query))
  IN [ i \in 1..Len(subjects) |-> calculateSimilarity(queryLower, subjects[i].keywords) ]

bestScore(scores) ==
  CHOOSE m \in { scores[i] : i \in DOMAIN scores } \cup {0} :
    \A i \in DOMAIN scores : scores[i] <= m

subjectReturned ==
  fpc = "returned" /\ fname = "extractClassAndSubject"

\* C27: the subject extractor returns a subject whose similarity score is
\* the highest over all known subjects when that score is greater than 3,
\* and returns null when the best score is not greater than 3.
C27_BestSubject ==
  subjectReturned =>
    LET scores == subjectScores(fargs[1])
        best == bestScore(scores)
        subject == ValueOf(fresult).subject
    IN IF best > 3
       THEN /\ ~IsNull(subject)
            /\ \E i \in DOMAIN scores :
                 subjects[i].name = ValueOf(subject) /\ scores[i] = best
       ELSE IsNull(subject)

\* the image-bank and one-click tiers, the two tiers above the class tier,
\* pushed nothing for q
noHigherTier(q) ==
  /\ ~isImageSearchTerm(q)
  /\ oneClickLoop(queryLowerOf(q), 1) = <<>>

\* C28: whenever performPrioritySearch extracts a class number in 1..10 and
\* no higher-priority tier has matched, the returned result has category
\* class_subject and a URL of that class, also when the subject found has
\* the portal code "unknown".
C28_ClassLanding ==
  Returned /\ ClassFound(searchQuery) /\ noHigherTier(searchQuery) =>
    /\ top.category = "class_subject"
    /\ includes(top.url, "/views/academic/class/class-"
                         \o toString(ValueOf(extractClassAndSubject(searchQuery).classNum)))

(***************************************************************************)
(* The fallback terms of findNearestResults                                *)
(***************************************************************************)
\* the searches findNearestResults made: those after the search for the
\* query itself
nearestCalls == Tail(portalCalls)

\* the terms findNearestResults has for the query, the last resort at the
\* end
nearestTerms == fallbackTermsOf(portalCalls[1].arg) \o << "educational resources" >>

\* C29: findNearestResults searches the fallback terms of the selected
\* category one at a time in list order; no term is searched after a
\* non-empty answer, which is the one returned; "educational resources" is
\* searched only after every term of the list gave nothing.
C29_FallbackInOrder ==
  Len(portalCalls) >= 2 =>
    /\ Len(nearestCalls) <= Len(nearestTerms)
    /\ \A k \in 1..Len(nearestCalls) : nearestCalls[k].arg = nearestTerms[k]
    /\ \A k \in 1..(Len(nearestCalls) - 1) : nearestCalls[k].found = 0
    /\ (cpc = "done" /\ chatError = NULL)
         => Len(response.thumbnails) = nearestCalls[Len(nearestCalls)].found

\* the second fallback term gave results after the first gave none, and
\* the request ended with them
C29_Witness ==
  /\ cpc = "done" /\ chatError = NULL
  /\ Len(portalCalls) = 3
  /\ portalCalls[2].found = 0
  /\ portalCalls[3].found > 0
  /\ response.thumbnails # <<>>

\* every fallback term gave nothing and the last resort was searched
C29_LastResortReached ==
  /\ Len(portalCalls) >= 2
  /\ portalCalls[Len(portalCalls)].arg = "educational resources"

(***************************************************************************)
(* Failures of the writes a chat request starts                            *)
(***************************************************************************)
\* a write of the finished request settles with a failed insert
writeFails ==
  /\ cpc = "done" /\ pending # <<>>
  /\ pending' = Tail(pending)
  /\ saveFailed'

====
